---- MODULE Spec2Model ----
(***************************************************************************)
(* Trading core of asx_jobs: PaperTradingEngine (paper/engine.py),         *)
(* EODExecutor (paper/executor.py), PortfolioAnalyzer (paper/metrics.py),  *)
(* RiskManager (paper/risk.py), BacktestEngine (backtest/engine.py) and    *)
(* the Database methods they call (database.py).                           *)
(* Money amounts and prices are integers; quantities that                  *)
(* the code obtains by division (average entry price, realised P&L, daily  *)
(* return) are exact rationals [n, d] in lowest terms.                     *)
(***************************************************************************)
EXTENDS Integers, Sequences, FiniteSets, TLC

VARIABLES
    paper_accounts,       \* table paper_accounts: sequence of rows, id = index
    paper_orders,         \* table paper_orders: sequence of rows, id = index
    paper_positions,      \* table paper_positions: (account_id, instrument_id) -> row
    portfolio_snapshots,  \* table portfolio_snapshots: (account_id, date) -> row
    expected_realized,    \* history: sum of (fill - avg) * qty over filled sells
    cash_writes,          \* history: per order, number of balance updates made for it
    faults,               \* history: number of persistence failures so far
    sell_pnl,             \* history: per order, the realized P&L of its sell fill
    pc,                   \* BacktestEngine.run: the position in the call
    run_config,           \* the BacktestConfig of the call
    prices_by_instrument, \* instrument -> its daily_prices rows in the range
    day_idx,              \* index of the trading day being simulated
    signals,              \* the signals collected for the day
    signal_idx,           \* index of the signal being applied
    run_cash,             \* local cash
    run_positions,        \* local positions, in insertion order
    run_trades,           \* local trades
    equity_curve,         \* local equity_curve
    run_result,           \* the BacktestResult, once built
    run_error,            \* the message of the exception being handled
    backtest_run,         \* table backtest_runs: the row of the run
    backtest_trades,      \* table backtest_trades: the rows of the run
    backtest_metrics,     \* table backtest_metrics: the rows of the run
    opened,               \* history: number of positions opened
    book_at_open,         \* history: cash, positions and trades before the day's signals
    risk_limits,          \* RiskManager._limits
    last_call             \* the last RiskManager or PortfolioAnalyzer call and its result

paper_vars == <<paper_accounts, paper_orders, paper_positions,
                portfolio_snapshots, expected_realized, cash_writes, faults,
                sell_pnl>>

backtest_vars == <<pc, run_config, prices_by_instrument, day_idx, signals,
                   signal_idx, run_cash, run_positions, run_trades, equity_curve,
                   run_result, run_error, backtest_run, backtest_trades,
                   backtest_metrics, opened, book_at_open>>

vars == <<paper_vars, backtest_vars, risk_limits, last_call>>

----------------------------------------------------------------------------
(* Bounds of the model *)

MaxOrders == 3
MaxEngineOrders == 2
MaxDates == 2
MaxSnapshots == 1
MaxFaults == 1
\* the snapshots an account has when its risk and performance are computed
MaxCurve == 3

----------------------------------------------------------------------------
(* Python's None in an optional numeric field *)
None == -1

(* Exact rationals *)
RECURSIVE GCD(_, _)
GCD(a, b) == IF b = 0 THEN a ELSE GCD(b, a % b)

Abs(x) == IF x < 0 THEN -x ELSE x

Rat(n, d) ==
    LET s == IF d < 0 THEN -1 ELSE 1
        g == GCD(Abs(n), Abs(d))
    IN  [n |-> (s * n) \div g, d |-> (s * d) \div g]

RInt(i) == [n |-> i, d |-> 1]
RAdd(x, y) == Rat(x.n * y.d + y.n * x.d, x.d * y.d)
RSub(x, y) == Rat(x.n * y.d - y.n * x.d, x.d * y.d)
RMul(x, y) == Rat(x.n * y.n, x.d * y.d)
RDiv(x, y) == Rat(x.n * y.d, x.d * y.n)
RLess(x, y) == x.n * y.d < y.n * x.d
RZero == RInt(0)
NoneRat == [n |-> 0, d |-> 0]

----------------------------------------------------------------------------
(* Reference data: the instruments table (symbol -> id); "ZZZ" is not listed *)

Instruments == {1}
Symbols == {"AAA", "ZZZ"}

get_instrument_by_symbol(symbol) ==
    IF symbol = "AAA" THEN 1 ELSE None

Dates == 1..MaxDates
Prices == {1, 2}
Quantities == {1, 2}

(* A daily_prices row: close is mandatory, high and low may be null *)
Bars ==
    { b \in [close : Prices, high : Prices \cup {None}, low : Prices \cup {None}] :
        /\ b.high # None => b.high >= b.close
        /\ b.low # None => b.low <= b.close }

(* The rows the calls find in daily_prices: one for each outcome a row can have
   for the orders submitted (the close, whether the low reaches the limit buy,
   whether the high reaches the limit sell), with and without high and low *)
DayBars ==
    { [close |-> 1, high |-> 2, low |-> 1],
      [close |-> 1, high |-> None, low |-> None],
      [close |-> 2, high |-> None, low |-> 1],
      [close |-> 2, high |-> 2, low |-> 2] }

(* The price rows of one date for the instruments S that the call reads, by
   instrument; an instrument may have none *)
PriceMaps(S) ==
    UNION { [T -> DayBars] : T \in SUBSET S }

----------------------------------------------------------------------------
(* Database: paper_accounts *)

\* The account names the calls use, in the order of first use
AccountNames == <<"alpha", "beta">>

AccountIds == 1..Len(AccountNames)

create_paper_account(accounts, name, initial_balance) ==
    Append(accounts, [name |-> name,
                      initial_balance |-> initial_balance,
                      cash_balance |-> initial_balance])

\* TRUE when the select returns a row
has_paper_account(accounts, account_id) ==
    account_id \in DOMAIN accounts

get_paper_account_by_name(accounts, name) ==
    { a \in DOMAIN accounts : accounts[a].name = name }

update_paper_account_balance(accounts, account_id, cash_balance) ==
    IF account_id \in DOMAIN accounts
    THEN [accounts EXCEPT ![account_id].cash_balance = cash_balance]
    ELSE accounts

(* Database: paper_orders *)

submit_paper_order(orders, account_id, instrument_id, order_side, quantity, order_type, limit_price) ==
    Append(orders, [account_id |-> account_id,
                    instrument_id |-> instrument_id,
                    order_side |-> order_side,
                    order_type |-> order_type,
                    quantity |-> quantity,
                    limit_price |-> limit_price,
                    status |-> "pending",
                    filled_quantity |-> 0,
                    filled_avg_price |-> None])

RECURSIVE SelectIds(_, _, _)
SelectIds(orders, keep, k) ==
    IF k > Len(orders) THEN <<>>
    ELSE (IF keep[k] THEN <<k>> ELSE <<>>) \o SelectIds(orders, keep, k + 1)

\* get_pending_paper_orders without the account filter of lines 821-822
get_pending_paper_orders_unfiltered(orders, account_id) ==
    SelectIds(orders, [k \in DOMAIN orders |-> orders[k].status = "pending"], 1)

\* get_pending_paper_orders without the filter on status
get_pending_paper_orders_any_status(orders, account_id) ==
    LET keep == [k \in DOMAIN orders |->
                    (account_id # None /\ account_id # 0)
                         => orders[k].account_id = account_id]
    IN  SelectIds(orders, keep, 1)

\* the ids of the pending orders, ordered by submitted_at; a falsy account_id
\* (None, 0) selects every account
get_pending_paper_orders(orders, account_id) ==
    LET keep == [k \in DOMAIN orders |->
                    /\ orders[k].status = "pending"
                    /\ (account_id # None /\ account_id # 0)
                         => orders[k].account_id = account_id]
    IN  SelectIds(orders, keep, 1)

fill_paper_order(orders, order_id, filled_price, filled_quantity) ==
    LET qty == IF filled_quantity # None /\ filled_quantity # 0
               THEN filled_quantity ELSE orders[order_id].quantity
        status == IF qty >= orders[order_id].quantity THEN "filled" ELSE "partial"
    IN  [orders EXCEPT ![order_id].filled_quantity = qty,
                       ![order_id].filled_avg_price = filled_price,
                       ![order_id].status = status]

cancel_paper_order(orders, order_id) ==
    IF order_id \in DOMAIN orders
    THEN [orders EXCEPT ![order_id].status = "cancelled"]
    ELSE orders

(* Database: paper_positions *)

upsert_paper_position(positions, account_id, instrument_id, quantity, avg_entry_price, current_price, realized_pnl) ==
    LET unrealized_pnl ==
            IF current_price # None /\ current_price # 0 /\ quantity > 0
            THEN RMul(RSub(RInt(current_price), avg_entry_price), RInt(quantity))
            ELSE NoneRat
        row == [quantity |-> quantity,
                avg_entry_price |-> avg_entry_price,
                current_price |-> current_price,
                unrealized_pnl |-> unrealized_pnl,
                realized_pnl |-> realized_pnl]
        key == <<account_id, instrument_id>>
    IN  [k \in DOMAIN positions \cup {key} |->
            IF k = key THEN row ELSE positions[k]]

\* TRUE when the select returns a row
has_paper_position(positions, account_id, instrument_id) ==
    <<account_id, instrument_id>> \in DOMAIN positions

get_paper_position(positions, account_id, instrument_id) ==
    positions[<<account_id, instrument_id>>]

\* the instruments of the account's rows with quantity > 0
get_paper_positions(positions, account_id) ==
    { k[2] : k \in { key \in DOMAIN positions :
                        /\ key[1] = account_id
                        /\ positions[key].quantity > 0 } }

----------------------------------------------------------------------------
(* EODExecutor *)

\* _check_limit_order with strict comparisons
_check_limit_order_strict(side, limit_price, high, low) ==
    IF side = "buy" THEN low < limit_price ELSE high > limit_price

_check_limit_order(side, limit_price, high, low) ==
    IF side = "buy" THEN low <= limit_price ELSE high >= limit_price

FillResult(order_id, order, fill_price, total_value, success, message) ==
    [order_id |-> order_id,
     instrument_id |-> order.instrument_id,
     side |-> order.order_side,
     quantity |-> order.quantity,
     fill_price |-> fill_price,
     total_value |-> total_value,
     success |-> success,
     message |-> message]

\* The persistence calls of _process_order that write
FaultPoints == {"update_paper_account_balance", "upsert_paper_position",
                "fill_paper_order"}

Returned(db, result) == [db |-> db, raised |-> FALSE, result |-> result]
\* the call named by `fault` failed: nothing later runs, what was written stays
Raised(db, order_id, order) ==
    [db |-> db, raised |-> TRUE,
     result |-> FillResult(order_id, order, 0, 0, FALSE, "raised")]

\* The tail shared by the buy and the sell branch: the position upsert and the
\* order fill, after the balance update.
WritePositionAndFill(db, order_id, order, fill_price, total_value, new_qty, new_avg_price, close_price, realized_pnl, fault) ==
    IF fault = "upsert_paper_position" THEN Raised(db, order_id, order)
    ELSE
    LET db2 == [db EXCEPT !.positions =
                    upsert_paper_position(db.positions, order.account_id,
                        order.instrument_id, new_qty, new_avg_price,
                        close_price, realized_pnl)]
    IN  IF fault = "fill_paper_order" THEN Raised(db2, order_id, order)
        ELSE Returned(
                [db2 EXCEPT !.orders =
                    fill_paper_order(db2.orders, order_id, fill_price, order.quantity)],
                FillResult(order_id, order, fill_price, total_value, TRUE,
                           "Filled at EOD close"))

\* The buy branch taking the fill price as the new average entry price
ApplyBuy_last_price(db, order_id, order, fill_price, total_value, close_price, fault) ==
    LET cash_balance == db.accounts[order.account_id].cash_balance IN
    IF fault = "update_paper_account_balance" THEN Raised(db, order_id, order)
    ELSE
    LET new_cash == cash_balance - total_value
        db1 == [db EXCEPT !.accounts =
                    update_paper_account_balance(db.accounts, order.account_id, new_cash)]
        held == /\ has_paper_position(db1.positions, order.account_id, order.instrument_id)
                /\ get_paper_position(db1.positions, order.account_id,
                                      order.instrument_id).quantity > 0
        position == get_paper_position(db1.positions, order.account_id,
                                       order.instrument_id)
        new_qty == IF held THEN position.quantity + order.quantity ELSE order.quantity
    IN  WritePositionAndFill(db1, order_id, order, fill_price, total_value, new_qty,
                             RInt(fill_price), close_price, RZero, fault)

\* The buy branch once the cash check has passed (lines 208-228)
ApplyBuy(db, order_id, order, fill_price, total_value, close_price, fault) ==
    LET cash_balance == db.accounts[order.account_id].cash_balance IN
    IF fault = "update_paper_account_balance" THEN Raised(db, order_id, order)
    ELSE
    LET new_cash == cash_balance - total_value
        db1 == [db EXCEPT !.accounts =
                    update_paper_account_balance(db.accounts, order.account_id, new_cash)]
        held == /\ has_paper_position(db1.positions, order.account_id, order.instrument_id)
                /\ get_paper_position(db1.positions, order.account_id,
                                      order.instrument_id).quantity > 0
        position == get_paper_position(db1.positions, order.account_id,
                                       order.instrument_id)
        new_qty == IF held THEN position.quantity + order.quantity ELSE order.quantity
        new_avg_price ==
            IF held
            THEN RDiv(RAdd(RMul(position.avg_entry_price, RInt(position.quantity)),
                           RInt(fill_price * order.quantity)),
                      RInt(new_qty))
            ELSE RInt(fill_price)
    IN  \* realized_pnl is not passed: upsert_paper_position's default 0.0 is stored
        WritePositionAndFill(db1, order_id, order, fill_price, total_value, new_qty,
                             new_avg_price, close_price, RZero, fault)

\* The buy branch debiting the account before the cash check
ProcessBuy_debit_first(db, order_id, order, fill_price, total_value, close_price, fault) ==
    LET cash_balance == db.accounts[order.account_id].cash_balance
        db1 == [db EXCEPT !.accounts =
                    update_paper_account_balance(db.accounts, order.account_id,
                                                 cash_balance - total_value)]
    IN  IF cash_balance < total_value
        THEN Returned(db1, FillResult(order_id, order, fill_price, total_value, FALSE,
                                      "Insufficient cash"))
        ELSE ApplyBuy(db, order_id, order, fill_price, total_value, close_price, fault)

\* The buy branch without the cash check of lines 195-206
ProcessBuy_unfunded(db, order_id, order, fill_price, total_value, close_price, fault) ==
    ApplyBuy(db, order_id, order, fill_price, total_value, close_price, fault)

ProcessBuy(db, order_id, order, fill_price, total_value, close_price, fault) ==
    IF db.accounts[order.account_id].cash_balance < total_value
    THEN Returned(db, FillResult(order_id, order, fill_price, total_value, FALSE,
                                 "Insufficient cash"))
    ELSE ApplyBuy(db, order_id, order, fill_price, total_value, close_price, fault)

\* The sell branch once the position check has passed (lines 246-273)
ApplySell(db, order_id, order, fill_price, total_value, close_price, fault) ==
    LET cash_balance == db.accounts[order.account_id].cash_balance
        position == get_paper_position(db.positions, order.account_id,
                                       order.instrument_id)
        pos_qty == position.quantity
        pos_avg == position.avg_entry_price
        pos_realized == position.realized_pnl
        realized_pnl == RMul(RSub(RInt(fill_price), pos_avg), RInt(order.quantity))
        new_qty == pos_qty - order.quantity
        new_cash == cash_balance + total_value
    IN  IF fault = "update_paper_account_balance" THEN Raised(db, order_id, order)
        ELSE
        LET db1 == [db EXCEPT !.accounts =
                    update_paper_account_balance(db.accounts, order.account_id, new_cash)]
        IN  WritePositionAndFill(db1, order_id, order, fill_price, total_value, new_qty,
                IF new_qty > 0 THEN pos_avg ELSE RZero,
                close_price, RAdd(pos_realized, realized_pnl), fault)

\* The sell branch checking only that a position row exists, not its quantity
ProcessSell_unheld(db, order_id, order, fill_price, total_value, close_price, fault) ==
    IF ~has_paper_position(db.positions, order.account_id, order.instrument_id)
    THEN Returned(db, FillResult(order_id, order, fill_price, total_value, FALSE,
                                 "Insufficient position"))
    ELSE ApplySell(db, order_id, order, fill_price, total_value, close_price, fault)

ProcessSell(db, order_id, order, fill_price, total_value, close_price, fault) ==
    IF \/ ~has_paper_position(db.positions, order.account_id, order.instrument_id)
       \/ get_paper_position(db.positions, order.account_id,
                             order.instrument_id).quantity < order.quantity
    THEN Returned(db, FillResult(order_id, order, fill_price, total_value, FALSE,
                                 "Insufficient position"))
    ELSE ApplySell(db, order_id, order, fill_price, total_value, close_price, fault)

\* db = [accounts, orders, positions]; order is the row read when the pass began;
\* fault names the persistence call that fails, or is "none"
_process_order(db, order_id, order, price_map, fault) ==
    IF order.instrument_id \notin DOMAIN price_map
    THEN Returned(db, FillResult(order_id, order, 0, 0, FALSE, "No price data"))
    ELSE
    LET price_data == price_map[order.instrument_id]
        close_price == price_data.close
        high_price == IF price_data.high # None /\ price_data.high # 0
                      THEN price_data.high ELSE close_price
        low_price == IF price_data.low # None /\ price_data.low # 0
                     THEN price_data.low ELSE close_price
        is_limit == order.order_type = "limit" /\ order.limit_price # None
        can_fill == _check_limit_order(order.order_side, order.limit_price,
                                       high_price, low_price)
        fill_price == IF is_limit THEN order.limit_price ELSE close_price
        total_value == fill_price * order.quantity
    IN  IF is_limit /\ ~can_fill
        THEN Returned(db, FillResult(order_id, order, 0, 0, FALSE,
                                     "Limit price not reached"))
        ELSE IF ~has_paper_account(db.accounts, order.account_id)
        THEN Returned(db, FillResult(order_id, order, fill_price, total_value, FALSE,
                                     "Account not found"))
        ELSE IF order.order_side = "buy"
        THEN ProcessBuy(db, order_id, order, fill_price, total_value, close_price, fault)
        ELSE ProcessSell(db, order_id, order, fill_price, total_value, close_price, fault)

----------------------------------------------------------------------------
(* PaperTradingEngine *)

\* create_account: the accounts table after the call, whether the call raised
\* (ValueError, name already taken), and the account id it returned otherwise
create_account(accounts, name, initial_balance) ==
    IF get_paper_account_by_name(accounts, name) # {}
    THEN [accounts |-> accounts, raised |-> TRUE, account_id |-> None]
    ELSE [accounts |-> create_paper_account(accounts, name, initial_balance),
          raised |-> FALSE,
          account_id |-> Len(accounts) + 1]

Sides == {"buy", "sell", "hold"}
\* (order_type, limit_price) as submitted; a market order may carry a limit price
OrderKinds == {<<"market", None>>, <<"limit", None>>}
                \cup { <<"limit", p>> : p \in Prices }
InitialBalances == {4}

OrderResult(order_id, success, message) ==
    [op |-> "submit_order", order_id |-> order_id, success |-> success,
     message |-> message]

\* submit_order without the position check of lines 150-156
submit_order_unheld(accounts, orders, positions, account_id, symbol, side, quantity, order_type, limit_price) ==
    LET instrument_id == get_instrument_by_symbol(symbol)
        Reject(message) == [orders |-> orders, result |-> OrderResult(0, FALSE, message)]
    IN
    IF side \notin {"buy", "sell"} THEN Reject("Invalid side")
    ELSE IF quantity <= 0 THEN Reject("Quantity must be positive")
    ELSE IF order_type = "limit" /\ limit_price = None
        THEN Reject("Limit price required for limit orders")
    ELSE IF ~has_paper_account(accounts, account_id) THEN Reject("Account not found")
    ELSE IF instrument_id = None THEN Reject("Symbol not found")
    ELSE [orders |-> submit_paper_order(orders, account_id, instrument_id, side,
                                        quantity, order_type, limit_price),
          result |-> OrderResult(Len(orders) + 1, TRUE, "Order submitted")]

\* returns the orders table after the call and the OrderResult
submit_order(accounts, orders, positions, account_id, symbol, side, quantity, order_type, limit_price) ==
    LET instrument_id == get_instrument_by_symbol(symbol)
        Reject(message) == [orders |-> orders, result |-> OrderResult(0, FALSE, message)]
    IN
    IF side \notin {"buy", "sell"} THEN Reject("Invalid side")
    ELSE IF quantity <= 0 THEN Reject("Quantity must be positive")
    ELSE IF order_type = "limit" /\ limit_price = None
        THEN Reject("Limit price required for limit orders")
    ELSE IF ~has_paper_account(accounts, account_id) THEN Reject("Account not found")
    ELSE IF instrument_id = None THEN Reject("Symbol not found")
    ELSE IF /\ side = "sell"
            /\ \/ ~has_paper_position(positions, account_id, instrument_id)
               \/ get_paper_position(positions, account_id, instrument_id).quantity
                    < quantity
        THEN Reject("Insufficient position")
    ELSE [orders |-> submit_paper_order(orders, account_id, instrument_id, side,
                                        quantity, order_type, limit_price),
          result |-> OrderResult(Len(orders) + 1, TRUE, "Order submitted")]

\* cancel_order without the look-up among the pending orders of lines 189-191
cancel_order_unguarded(orders, order_id) ==
    [orders |-> cancel_paper_order(orders, order_id),
     result |-> order_id \in DOMAIN orders]

\* returns the orders table after the call and the returned flag
cancel_order(orders, order_id) ==
    LET pending == get_pending_paper_orders(orders, None) IN
    IF ~(\E k \in DOMAIN pending : pending[k] = order_id)
    THEN [orders |-> orders, result |-> FALSE]
    ELSE [orders |-> cancel_paper_order(orders, order_id), result |-> TRUE]

RECURSIVE RSum(_, _)
RSum(S, f) ==
    IF S = {} THEN RZero
    ELSE LET x == CHOOSE y \in S : TRUE IN RAdd(f[x], RSum(S \ {x}, f))

\* latest: the most recent daily_prices row of each instrument that has one
get_portfolio_value(accounts, positions, account_id, latest) ==
    LET account == accounts[account_id]
        open == get_paper_positions(positions, account_id)
        current_price == [i \in open |->
            IF i \in DOMAIN latest THEN RInt(latest[i].close)
            ELSE positions[<<account_id, i>>].avg_entry_price]
        market_value == [i \in open |->
            RMul(current_price[i], RInt(positions[<<account_id, i>>].quantity))]
        positions_value == RSum(open, market_value)
    IN  [cash_balance |-> account.cash_balance,
         positions_value |-> positions_value,
         total_value |-> RAdd(RInt(account.cash_balance), positions_value),
         positions |-> [i \in open |->
            [quantity |-> positions[<<account_id, i>>].quantity,
             avg_entry_price |-> positions[<<account_id, i>>].avg_entry_price,
             current_price |-> current_price[i],
             market_value |-> market_value[i]]]]

\* get_portfolio_value raises: unknown account (ValueError), or the division by
\* initial_balance in total_return (ZeroDivisionError)
portfolio_value_raises(accounts, account_id) ==
    \/ ~has_paper_account(accounts, account_id)
    \/ accounts[account_id].initial_balance = 0

\* update_position_prices passing the latest close as avg_entry_price as well
update_position_prices_rebased(positions, account_id, latest) ==
    LET touched == get_paper_positions(positions, account_id) \cap DOMAIN latest IN
    [positions |->
        [k \in DOMAIN positions |->
            IF k[1] = account_id /\ k[2] \in touched
            THEN upsert_paper_position(positions, account_id, k[2],
                    positions[k].quantity, RInt(latest[k[2]].close),
                    latest[k[2]].close, positions[k].realized_pnl)[k]
            ELSE positions[k]],
     updated |-> Cardinality(touched)]

update_position_prices(positions, account_id, latest) ==
    LET touched == get_paper_positions(positions, account_id) \cap DOMAIN latest IN
    [positions |->
        [k \in DOMAIN positions |->
            IF k[1] = account_id /\ k[2] \in touched
            THEN upsert_paper_position(positions, account_id, k[2],
                    positions[k].quantity, positions[k].avg_entry_price,
                    latest[k[2]].close, positions[k].realized_pnl)[k]
            ELSE positions[k]],
     updated |-> Cardinality(touched)]

\* Database.get_latest_portfolio_snapshot: the dates of the account's snapshots
SnapshotDates(snapshots, account_id) ==
    { d \in Dates : <<account_id, d>> \in DOMAIN snapshots }

MaxOf(S) == CHOOSE x \in S : \A y \in S : y <= x

create_snapshot(accounts, positions, snapshots, account_id, snapshot_date, latest) ==
    LET portfolio == get_portfolio_value(accounts, positions, account_id, latest)
        dates == SnapshotDates(snapshots, account_id)
        has_prev == dates # {}
        prev_snapshot == snapshots[<<account_id, MaxOf(dates)>>]
        daily_pnl == IF has_prev
                     THEN RSub(portfolio.total_value, prev_snapshot.total_value)
                     ELSE NoneRat
        daily_return == IF has_prev /\ RLess(RZero, prev_snapshot.total_value)
                        THEN RDiv(daily_pnl, prev_snapshot.total_value)
                        ELSE NoneRat
        row == [cash_balance |-> portfolio.cash_balance,
                positions_value |-> portfolio.positions_value,
                total_value |-> portfolio.total_value,
                daily_pnl |-> daily_pnl,
                daily_return |-> daily_return,
                positions_snapshot |-> portfolio.positions]
        key == <<account_id, snapshot_date>>
    IN  [k \in DOMAIN snapshots \cup {key} |-> IF k = key THEN row ELSE snapshots[k]]

----------------------------------------------------------------------------
(* EODExecutor.execute_orders *)

\* The loop of lines 84-95 from the k-th pending order on.  run = [db, fills,
\* before, raised]: before[j] is the database as the j-th order found it.  The
\* persistence call `fault` of the fault_at-th order fails (fault_at = 0: none
\* does); the exception is not caught, so the loop ends there.
RECURSIVE ProcessPending(_, _, _, _, _, _)
ProcessPending(run, pending_orders, price_map, k, fault_at, fault) ==
    IF k > Len(pending_orders) THEN run
    ELSE
    LET order == pending_orders[k]
        r == _process_order(run.db, order.id, order.row, price_map,
                            IF k = fault_at THEN fault ELSE "none")
        next == [db |-> r.db,
                 fills |-> IF r.raised THEN run.fills ELSE Append(run.fills, r.result),
                 before |-> Append(run.before, run.db),
                 raised |-> r.raised]
    IN  IF r.raised THEN next
        ELSE ProcessPending(next, pending_orders, price_map, k + 1, fault_at, fault)

Count(fills, success) ==
    Cardinality({ k \in DOMAIN fills : fills[k].success = success })

RECURSIVE TotalValue(_, _, _)
TotalValue(fills, side, k) ==
    IF k > Len(fills) THEN 0
    ELSE (IF fills[k].success /\ fills[k].side = side
          THEN fills[k].total_value ELSE 0) + TotalValue(fills, side, k + 1)

ExecutionSummary(pending_orders, fills) ==
        [orders_processed |-> Len(pending_orders),
         orders_filled |-> Count(fills, TRUE),
         orders_rejected |-> Count(fills, FALSE),
         total_buy_value |-> TotalValue(fills, "buy", 1),
         total_sell_value |-> TotalValue(fills, "sell", 1),
         fills |-> fills]

\* The orders the pass reads at line 74, as rows with their ids
PendingOrders(orders, account_id) ==
    LET ids == get_pending_paper_orders(orders, account_id) IN
    [k \in DOMAIN ids |-> [id |-> ids[k], row |-> orders[ids[k]]]]

\* db = [accounts, orders, positions].  Returns the database after the call,
\* whether the call raised, the summary it returned otherwise, and `before`.
execute_orders(db, account_id, price_map, fault_at, fault) ==
    LET pending_orders == PendingOrders(db.orders, account_id)
        run == ProcessPending([db |-> db, fills |-> <<>>, before |-> <<>>,
                               raised |-> FALSE],
                              pending_orders, price_map, 1, fault_at, fault)
    IN  [db |-> run.db,
         raised |-> run.raised,
         summary |-> ExecutionSummary(pending_orders, run.fills),
         pending_orders |-> pending_orders,
         before |-> run.before]

\* the instruments whose price row a pass over the account's pending orders reads
PendingInstruments(orders, account_id) ==
    LET ids == get_pending_paper_orders(orders, account_id) IN
    { orders[ids[k]].instrument_id : k \in DOMAIN ids }

----------------------------------------------------------------------------
(* Backtest engine (backtest/engine.py) *)

\* The instruments of the run, in the order of instrument_ids
instrument_ids == <<1, 2>>

Universe == { instrument_ids[k] : k \in DOMAIN instrument_ids }

\* The dates of the range start_date..end_date
MaxDays == 2

TradeDates == 1..MaxDays

end_date == MaxDays

\* table daily_prices within the range: the close of (instrument, date), None
\* where the instrument has no row for the date
PriceTables == [Universe \X TradeDates -> Prices \cup {None}]

RECURSIVE sorted(_)
sorted(S) ==
    IF S = {} THEN <<>>
    ELSE LET lo == CHOOSE x \in S : \A y \in S : x <= y
         IN  <<lo>> \o sorted(S \ {lo})

\* Database.get_all_price_history_range: instrument -> rows ascending by date;
\* an instrument without rows has no key
get_all_price_history_range(table) ==
    [i \in { u \in Universe : \E d \in TradeDates : table[<<u, d>>] # None } |->
        LET days == sorted({ d \in TradeDates : table[<<i, d>>] # None })
        IN  [k \in DOMAIN days |->
                [trade_date |-> days[k], close |-> table[<<i, days[k]>>]]]]

\* the dates on which every instrument has a row
trading_days_common(prices) ==
    sorted({ d \in TradeDates : \A i \in DOMAIN prices :
                \E k \in DOMAIN prices[i] : prices[i][k].trade_date = d })

\* sorted(all_dates)
trading_days(prices) ==
    sorted(UNION { { prices[i][k].trade_date : k \in DOMAIN prices[i] } :
                    i \in DOMAIN prices })

\* next((p for p in prices if p["trade_date"] == trade_date), None)
BarOn(prices, inst_id, trade_date) ==
    IF inst_id \notin DOMAIN prices THEN {}
    ELSE { prices[inst_id][k] : k \in { j \in DOMAIN prices[inst_id] :
                                  prices[inst_id][j].trade_date = trade_date } }

\* next((p for p in reversed(prices) if p["trade_date"] <= config.end_date), None)
LastBar(prices, inst_id) ==
    IF inst_id \notin DOMAIN prices THEN {}
    ELSE LET ks == { j \in DOMAIN prices[inst_id] :
                        prices[inst_id][j].trade_date <= end_date }
         IN  IF ks = {} THEN {}
             ELSE { prices[inst_id][CHOOSE k \in ks : \A j \in ks : j <= k] }

\* BacktestConfig: capital is an integer, the rates are rationals
Half == Rat(1, 2)

Configs ==
    [initial_capital : {4}, position_size_pct : {Half}, max_positions : {1, 2},
     commission_pct : {RZero, Half}, slippage_pct : {RZero, Half}]

\* int(x) of a rational that is not negative
RFloor(x) == x.n \div x.d

RMin(x, y) == IF RLess(y, x) THEN y ELSE x

ROne == RInt(1)

\* the positions dict, in insertion order
Open(positions) == { positions[k].instrument_id : k \in DOMAIN positions }

PositionOf(positions, inst_id) ==
    positions[CHOOSE k \in DOMAIN positions : positions[k].instrument_id = inst_id]

\* del positions[inst_id]
Del(positions, inst_id) ==
    SelectSeq(positions, LAMBDA p : p.instrument_id # inst_id)

NoPosition == [instrument_id |-> None]

\* BacktestEngine._open_position
_open_position(instrument_id, price, date, target_value, config) ==
    LET slippage == RMul(RInt(price), config.slippage_pct)
        execution_price == RAdd(RInt(price), slippage)
        quantity == RFloor(RDiv(target_value, execution_price))
        position_value == RMul(RInt(quantity), execution_price)
        commission == RMul(position_value, config.commission_pct)
        total_cost == RAdd(position_value, commission)
    IN  IF quantity <= 0
        THEN [position |-> NoPosition, cost |-> RZero]
        ELSE [position |-> [instrument_id |-> instrument_id,
                            quantity |-> quantity,
                            entry_price |-> execution_price,
                            entry_date |-> date,
                            entry_value |-> total_cost],
              cost |-> total_cost]

\* BacktestEngine._close_position with the entry commission left out of the pnl
_close_position_exit_only(position, price, date, reason, config) ==
    LET execution_price == RSub(RInt(price), RMul(RInt(price), config.slippage_pct))
        gross_proceeds == RMul(RInt(position.quantity), execution_price)
        commission == RMul(gross_proceeds, config.commission_pct)
        basis == RMul(RInt(position.quantity), position.entry_price)
    IN  [trade |-> [instrument_id |-> position.instrument_id,
                    entry_date |-> position.entry_date,
                    entry_price |-> position.entry_price,
                    exit_date |-> date,
                    exit_price |-> execution_price,
                    quantity |-> position.quantity,
                    pnl |-> RSub(RSub(gross_proceeds, basis), commission),
                    exit_reason |-> reason,
                    commission |-> commission],
         proceeds |-> RSub(gross_proceeds, commission)]

\* BacktestEngine._close_position
_close_position(position, price, date, reason, config) ==
    LET slippage == RMul(RInt(price), config.slippage_pct)
        execution_price == RSub(RInt(price), slippage)
        gross_proceeds == RMul(RInt(position.quantity), execution_price)
        commission == RMul(gross_proceeds, config.commission_pct)
        net_proceeds == RSub(gross_proceeds, commission)
        gross_pnl == RSub(gross_proceeds,
                          RMul(RInt(position.quantity), position.entry_price))
        entry_commission == RSub(position.entry_value,
                                 RMul(RInt(position.quantity), position.entry_price))
        total_commission == RAdd(entry_commission, commission)
        net_pnl == RSub(gross_pnl, total_commission)
    IN  [trade |-> [instrument_id |-> position.instrument_id,
                    entry_date |-> position.entry_date,
                    entry_price |-> position.entry_price,
                    exit_date |-> date,
                    exit_price |-> execution_price,
                    quantity |-> position.quantity,
                    pnl |-> net_pnl,
                    exit_reason |-> reason,
                    commission |-> total_commission],
         proceeds |-> net_proceeds]

RECURSIVE SeqSum(_, _)
SeqSum(xs, k) ==
    IF k > Len(xs) THEN RZero ELSE RAdd(xs[k], SeqSum(xs, k + 1))

PnlOf(trades) == [k \in DOMAIN trades |-> trades[k].pnl]

RAbs(x) == [n |-> Abs(x.n), d |-> x.d]

\* BacktestEngine._calculate_metrics with a zero pnl in neither list
_calculate_metrics_strict(trades, initial_capital, final_capital) ==
    LET winning_trades == SelectSeq(trades, LAMBDA t : RLess(RZero, t.pnl))
        losing_trades == SelectSeq(trades, LAMBDA t : RLess(t.pnl, RZero))
        gross_profit == SeqSum(PnlOf(winning_trades), 1)
        gross_loss == RAbs(SeqSum(PnlOf(losing_trades), 1))
    IN  [total_return |-> RDiv(RSub(final_capital, RInt(initial_capital)),
                               RInt(initial_capital)),
         win_rate |-> IF Len(trades) > 0
                      THEN Rat(Len(winning_trades), Len(trades)) ELSE RZero,
         profit_factor |-> IF RLess(RZero, gross_loss)
                           THEN RDiv(gross_profit, gross_loss) ELSE NoneRat,
         total_trades |-> Len(trades),
         winning_trades |-> Len(winning_trades),
         losing_trades |-> Len(losing_trades)]

\* BacktestEngine._calculate_metrics: the counts and ratios of the trades
_calculate_metrics(trades, initial_capital, final_capital) ==
    LET winning_trades == SelectSeq(trades, LAMBDA t : RLess(RZero, t.pnl))
        losing_trades == SelectSeq(trades, LAMBDA t : ~RLess(RZero, t.pnl))
        gross_profit == IF Len(winning_trades) > 0
                        THEN SeqSum(PnlOf(winning_trades), 1) ELSE RZero
        gross_loss == IF Len(losing_trades) > 0
                      THEN RAbs(SeqSum(PnlOf(losing_trades), 1)) ELSE RZero
    IN  [total_return |-> RDiv(RSub(final_capital, RInt(initial_capital)),
                               RInt(initial_capital)),
         win_rate |-> IF Len(trades) > 0
                      THEN Rat(Len(winning_trades), Len(trades)) ELSE RZero,
         profit_factor |-> IF RLess(RZero, gross_loss)
                           THEN RDiv(gross_profit, gross_loss) ELSE NoneRat,
         total_trades |-> Len(trades),
         winning_trades |-> Len(winning_trades),
         losing_trades |-> Len(losing_trades)]

\* A StrategySignal as the engine reads it; reason "" is no reason
SignalTypes == {"BUY", "SELL"}

StrategySignal(instrument_id, signal_type, price) ==
    [instrument_id |-> instrument_id, signal_type |-> signal_type,
     price |-> price, reason |-> ""]

\* the SELL branch of the signal loop, without the credit of the proceeds
apply_sell_uncredited(book, signal, trade_date, config) ==
    IF signal.instrument_id \in Open(book.positions)
    THEN [book EXCEPT
            !.positions = Del(@, signal.instrument_id),
            !.trades = Append(@, _close_position(
                PositionOf(book.positions, signal.instrument_id), signal.price,
                trade_date, "strategy_exit", config).trade)]
    ELSE book

\* the SELL branch of the signal loop
apply_sell(book, signal, trade_date, config) ==
    IF signal.instrument_id \in Open(book.positions)
    THEN LET closed == _close_position(
                 PositionOf(book.positions, signal.instrument_id), signal.price,
                 trade_date,
                 IF signal.reason # "" THEN signal.reason ELSE "strategy_exit",
                 config)
         IN  [cash |-> RAdd(book.cash, closed.proceeds),
              positions |-> Del(book.positions, signal.instrument_id),
              trades |-> Append(book.trades, closed.trade)]
    ELSE book

\* the BUY branch of the signal loop, without the test of the open positions
apply_buy_unchecked(book, signal, trade_date, config) ==
    LET position_value ==
            RMin(RMul(RInt(config.initial_capital), config.position_size_pct),
                 book.cash)
        made == _open_position(signal.instrument_id, signal.price, trade_date,
                                 position_value, config)
    IN  IF RLess(RZero, position_value) /\ made.position # NoPosition
        THEN [book EXCEPT !.positions = Append(@, made.position),
                          !.cash = RSub(@, made.cost)]
        ELSE book

\* the BUY branch of the signal loop
apply_buy(book, signal, trade_date, config) ==
    IF /\ signal.instrument_id \notin Open(book.positions)
       /\ Len(book.positions) < config.max_positions
    THEN LET position_value ==
                 RMin(RMul(RInt(config.initial_capital), config.position_size_pct),
                      book.cash)
             made == _open_position(signal.instrument_id, signal.price,
                                      trade_date, position_value, config)
         IN  IF RLess(RZero, position_value) /\ made.position # NoPosition
             THEN [book EXCEPT !.positions = Append(@, made.position),
                               !.cash = RSub(@, made.cost)]
             ELSE book
    ELSE book

\* one iteration of "for signal in signals"
apply_signal(book, signal, trade_date, config) ==
    IF signal.signal_type = "SELL" THEN apply_sell(book, signal, trade_date, config)
    ELSE IF signal.signal_type = "BUY" THEN apply_buy(book, signal, trade_date, config)
    ELSE book

\* the mark-to-market of one day: cash plus close * quantity of the positions
\* that have a bar on the day
RECURSIVE portfolio_value(_, _, _, _, _)
portfolio_value(cash, positions, prices, trade_date, k) ==
    IF k > Len(positions) THEN cash
    ELSE LET bar == BarOn(prices, positions[k].instrument_id, trade_date)
             rest == portfolio_value(cash, positions, prices, trade_date, k + 1)
         IN  IF bar = {} THEN rest
             ELSE RAdd(rest, RInt((CHOOSE b \in bar : TRUE).close
                                  * positions[k].quantity))

\* no forced close
force_close_skipped(book, prices, config, k) == book

\* the forced close of the positions left open, in the order of the dict; the
\* dict itself is not emptied
RECURSIVE force_close(_, _, _, _)
force_close(book, prices, config, k) ==
    IF k > Len(book.positions) THEN book
    ELSE LET last_bar == LastBar(prices, book.positions[k].instrument_id)
         IN  IF last_bar = {} THEN force_close(book, prices, config, k + 1)
             ELSE LET closed == _close_position(book.positions[k],
                                    (CHOOSE b \in last_bar : TRUE).close,
                                    end_date, "backtest_end", config)
                  IN  force_close(
                        [book EXCEPT !.trades = Append(@, closed.trade),
                                     !.cash = RAdd(@, closed.proceeds)],
                        prices, config, k + 1)

----------------------------------------------------------------------------
(* The state machine *)

\* before the call: no configuration, no result, no row in backtest_runs
NoConfig == [initial_capital |-> 0, position_size_pct |-> RZero, max_positions |-> 0,
             commission_pct |-> RZero, slippage_pct |-> RZero]

NoResult == [final_capital |-> NoneRat, metrics |-> <<>>, trades |-> <<>>,
             equity_curve |-> <<>>]

NoRun == [status |-> "none", final_capital |-> NoneRat, error_message |-> ""]

\* RiskLimits(): the defaults of the dataclass
RiskLimits ==
    [max_total_exposure |-> Rat(19, 20),
     max_position_concentration |-> Rat(1, 5),
     max_drawdown_pct |-> Rat(1, 5),
     max_losing_streak |-> 5,
     min_cash_reserve |-> Rat(1, 20)]

Init ==
    /\ paper_accounts = <<>>
    /\ paper_orders = <<>>
    /\ paper_positions = <<>>
    /\ portfolio_snapshots = <<>>
    /\ expected_realized = [k \in AccountIds \X Instruments |-> RZero]
    /\ cash_writes = <<>>
    /\ faults = 0
    /\ sell_pnl = <<>>
    /\ pc = "idle"
    /\ run_config = NoConfig
    /\ prices_by_instrument = <<>>
    /\ day_idx = 0
    /\ signals = <<>>
    /\ signal_idx = 0
    /\ run_cash = RZero
    /\ run_positions = <<>>
    /\ run_trades = <<>>
    /\ equity_curve = <<>>
    /\ run_result = NoResult
    /\ run_error = ""
    /\ backtest_run = NoRun
    /\ backtest_trades = <<>>
    /\ backtest_metrics = <<>>
    /\ opened = 0
    /\ book_at_open = [cash |-> RZero, positions |-> <<>>, trades |-> <<>>]
    /\ risk_limits = RiskLimits
    /\ last_call = [op |-> "none"]

\* Names are only compared for equality: a call names an existing account or the
\* next unused name
CallableNames(accounts) ==
    { AccountNames[k] : k \in { j \in DOMAIN AccountNames : j <= Len(accounts) + 1 } }

CreateAccount ==
    /\ \E name \in CallableNames(paper_accounts),
          initial_balance \in InitialBalances :
        paper_accounts' = create_account(paper_accounts, name, initial_balance).accounts
    /\ UNCHANGED <<paper_orders, paper_positions, portfolio_snapshots,
                   expected_realized, cash_writes, faults, sell_pnl>>
    /\ UNCHANGED backtest_vars
    /\ UNCHANGED <<risk_limits, last_call>>

\* The calls of submit_order that are made.  The first account places market
\* buys and sells of every quantity, a limit buy at the lowest price and
\* a limit sell at the highest; every account, and an id that is no account,
\* places unit market buys; and there is one call for each way of being malformed.
SubmitArgs ==
    { <<1, "AAA", side, q, "market", None>> :
        side \in {"buy", "sell"}, q \in Quantities }
    \cup { <<1, "AAA", "buy", 1, "limit", 1>>,
           <<1, "AAA", "sell", 1, "limit", 2>> }
    \cup { <<a, "AAA", "buy", 1, "market", None>> :
            a \in AccountIds \cup {Len(AccountNames) + 1} }
    \cup { <<1, "AAA", "hold", 1, "market", None>>,
           <<1, "AAA", "buy", 0, "market", None>>,
           <<1, "AAA", "buy", 1, "limit", None>>,
           <<1, "ZZZ", "buy", 1, "market", None>> }

SubmitOrder ==
    /\ \E args \in SubmitArgs :
        \E r \in {submit_order(paper_accounts, paper_orders, paper_positions,
                              args[1], args[2], args[3], args[4], args[5], args[6])} :
            /\ r.result.success => Len(paper_orders) < MaxOrders
            /\ paper_orders' = r.orders
            /\ cash_writes' = IF r.result.success THEN Append(cash_writes, 0)
                              ELSE cash_writes
            /\ sell_pnl' = IF r.result.success THEN Append(sell_pnl, NoneRat)
                           ELSE sell_pnl
    /\ UNCHANGED <<paper_accounts, paper_positions, portfolio_snapshots,
                   expected_realized, faults>>
    /\ UNCHANGED backtest_vars
    /\ UNCHANGED <<risk_limits, last_call>>

CancelOrder ==
    /\ \E order_id \in 1..MaxOrders :
        paper_orders' = cancel_order(paper_orders, order_id).orders
    /\ UNCHANGED <<paper_accounts, paper_positions, portfolio_snapshots,
                   expected_realized, cash_writes, faults, sell_pnl>>
    /\ UNCHANGED backtest_vars
    /\ UNCHANGED <<risk_limits, last_call>>

UpdatePositionPrices ==
    /\ \E account_id \in AccountIds :
      \E latest \in PriceMaps(get_paper_positions(paper_positions, account_id)) :
        paper_positions' =
            update_position_prices(paper_positions, account_id, latest).positions
    /\ UNCHANGED <<paper_accounts, paper_orders, portfolio_snapshots,
                   expected_realized, cash_writes, faults, sell_pnl>>
    /\ UNCHANGED backtest_vars
    /\ UNCHANGED <<risk_limits, last_call>>

CreateSnapshot ==
    /\ \E account_id \in AccountIds, snapshot_date \in Dates :
      \E latest \in PriceMaps(get_paper_positions(paper_positions, account_id)) :
        IF portfolio_value_raises(paper_accounts, account_id)
        THEN UNCHANGED portfolio_snapshots   \* raises
        ELSE portfolio_snapshots' =
                create_snapshot(paper_accounts, paper_positions,
                    portfolio_snapshots, account_id, snapshot_date, latest)
    /\ UNCHANGED <<paper_accounts, paper_orders, paper_positions,
                   expected_realized, cash_writes, faults, sell_pnl>>
    /\ UNCHANGED backtest_vars
    /\ UNCHANGED <<risk_limits, last_call>>

CurrentDb == [accounts |-> paper_accounts, orders |-> paper_orders,
              positions |-> paper_positions]

\* The database as the j-th order of pass r left it
AfterOrder(r, j) ==
    IF j < Len(r.before) THEN r.before[j + 1] ELSE r.db

\* history: the balance updates made for each order: one more for an order
\* whose processing in pass r changed paper_accounts
CashWritesAfter(writes, r) ==
    [id \in DOMAIN writes |->
        writes[id] +
        Cardinality({ j \in DOMAIN r.before :
            /\ r.pending_orders[j].id = id
            /\ AfterOrder(r, j).accounts # r.before[j].accounts })]

\* history: (fill_price - avg_entry_price at the fill) * quantity of each sell filled
RECURSIVE ExpectedAfter(_, _, _)
ExpectedAfter(expected, r, j) ==
    IF j > Len(r.summary.fills) THEN expected
    ELSE
    LET f == r.summary.fills[j]
        row == r.pending_orders[j].row
        key == <<row.account_id, row.instrument_id>>
    IN  ExpectedAfter(
            IF f.success /\ f.side = "sell"
            THEN [expected EXCEPT ![key] =
                    RAdd(@, RMul(RSub(RInt(f.fill_price),
                                      r.before[j].positions[key].avg_entry_price),
                                 RInt(f.quantity)))]
            ELSE expected,
            r, j + 1)

\* history: (fill_price - avg_entry_price at the fill) * quantity, by sell order
RECURSIVE SellPnlAfter(_, _, _)
SellPnlAfter(pnl, r, j) ==
    IF j > Len(r.summary.fills) THEN pnl
    ELSE
    LET f == r.summary.fills[j]
        row == r.pending_orders[j].row
        key == <<row.account_id, row.instrument_id>>
    IN  SellPnlAfter(
            IF f.success /\ f.side = "sell"
            THEN [pnl EXCEPT ![r.pending_orders[j].id] =
                    RMul(RSub(RInt(f.fill_price),
                              r.before[j].positions[key].avg_entry_price),
                         RInt(f.quantity))]
            ELSE pnl,
            r, j + 1)

ExecuteEffect(r) ==
    /\ paper_accounts' = r.db.accounts
    /\ paper_orders' = r.db.orders
    /\ paper_positions' = r.db.positions
    /\ cash_writes' = CashWritesAfter(cash_writes, r)
    /\ expected_realized' = ExpectedAfter(expected_realized, r, 1)
    /\ sell_pnl' = SellPnlAfter(sell_pnl, r, 1)
    /\ UNCHANGED portfolio_snapshots
    /\ UNCHANGED backtest_vars
    /\ UNCHANGED <<risk_limits, last_call>>

ExecuteOrders ==
    /\ \E account_id \in AccountIds \cup {None} :
      \E price_map \in PriceMaps(PendingInstruments(paper_orders, account_id)) :
        \E r \in {execute_orders(CurrentDb, account_id, price_map, 0, "none")} :
            ExecuteEffect(r)
    /\ UNCHANGED faults

\* A pass in which one persistence call raises
ExecuteOrdersFault ==
    /\ faults < MaxFaults
    /\ \E account_id \in AccountIds \cup {None}, fault \in FaultPoints :
      \E price_map \in PriceMaps(PendingInstruments(paper_orders, account_id)) :
       \E fault_at \in 1..Len(PendingOrders(paper_orders, account_id)) :
        \E r \in {execute_orders(CurrentDb, account_id, price_map, fault_at, fault)} :
            /\ r.raised
            /\ ExecuteEffect(r)
    /\ faults' = faults + 1

\* Trading: accounts, orders, passes and the marking of positions to market
Next ==
    \/ CreateAccount
    \/ SubmitOrder
    \/ CancelOrder
    \/ UpdatePositionPrices
    \/ ExecuteOrders

Spec == Init /\ [][Next]_vars

\* Trading and snapshots.  A snapshot row keeps the values of the day it was
\* taken, so the orders and the snapshot rows are capped lower here.
SubmitOrderEngine ==
    SubmitOrder /\ Len(paper_orders') <= MaxEngineOrders

CreateSnapshotEngine ==
    CreateSnapshot /\ Cardinality(DOMAIN portfolio_snapshots') <= MaxSnapshots

NextEngine ==
    \/ CreateAccount
    \/ SubmitOrderEngine
    \/ CancelOrder
    \/ UpdatePositionPrices
    \/ CreateSnapshotEngine
    \/ ExecuteOrders

SpecEngine == Init /\ [][NextEngine]_vars

\* Trading in which a persistence call of a pass may raise
NextFault ==
    \/ CreateAccount
    \/ SubmitOrder
    \/ CancelOrder
    \/ UpdatePositionPrices
    \/ ExecuteOrders
    \/ ExecuteOrdersFault

SpecFault == Init /\ [][NextFault]_vars

----------------------------------------------------------------------------
(* The state machine of one call of BacktestEngine.run *)

PersistPoints == {"complete_backtest_run", "_persist_trades", "_persist_metrics"}

Book == [cash |-> run_cash, positions |-> run_positions, trades |-> run_trades]

\* create_backtest_run, then the loading of the prices and the trading calendar
RunStart ==
    /\ pc = "idle"
    /\ \E cfg \in Configs, table \in PriceTables :
        \E prices \in {get_all_price_history_range(table)} :
            /\ run_config' = cfg
            /\ prices_by_instrument' = prices
            /\ backtest_run' = [status |-> "running", final_capital |-> NoneRat,
                                error_message |-> ""]
            /\ run_cash' = RInt(cfg.initial_capital)
            /\ IF trading_days(prices) = <<>>
               THEN /\ pc' = "except"
                    /\ run_error' = "No trading days found in the specified date range"
                    /\ day_idx' = 0
               ELSE /\ pc' = "on_bar"
                    /\ run_error' = ""
                    /\ day_idx' = 1
    /\ UNCHANGED <<signals, signal_idx, run_positions, run_trades, equity_curve, run_result,
                   backtest_trades, backtest_metrics, opened, book_at_open>>
    /\ UNCHANGED paper_vars
    /\ UNCHANGED <<risk_limits, last_call>>

TradeDate == trading_days(prices_by_instrument)[day_idx]

\* The signals on_bar may return on a day: one BUY or SELL at the close, or
\* none, for each instrument that has a bar, in the order of instrument_ids
RECURSIVE Collected(_, _)
Collected(answers, k) ==
    IF k > Len(instrument_ids) THEN <<>>
    ELSE LET inst_id == instrument_ids[k]
             bar == BarOn(prices_by_instrument, inst_id, TradeDate)
         IN  (IF bar # {} /\ answers[inst_id] \in SignalTypes
              THEN <<StrategySignal(inst_id, answers[inst_id],
                                    (CHOOSE b \in bar : TRUE).close)>>
              ELSE <<>>) \o Collected(answers, k + 1)

\* the polling of the strategy for one trading day
OnBar ==
    /\ pc = "on_bar"
    /\ \E answers \in [Universe -> SignalTypes \cup {"none"}] :
        signals' = Collected(answers, 1)
    /\ signal_idx' = 1
    /\ book_at_open' = Book
    /\ pc' = "signals"
    /\ UNCHANGED <<run_config, prices_by_instrument, day_idx, run_cash, run_positions, run_trades,
                   equity_curve, backtest_run, run_error, run_result, backtest_trades,
                   backtest_metrics, opened>>
    /\ UNCHANGED paper_vars
    /\ UNCHANGED <<risk_limits, last_call>>

\* on_bar raises
StrategyRaises ==
    /\ pc = "on_bar"
    /\ pc' = "except"
    /\ run_error' = "strategy error"
    /\ UNCHANGED <<run_config, prices_by_instrument, day_idx, signals, signal_idx,
                   run_cash, run_positions, run_trades, equity_curve, backtest_run, run_result,
                   backtest_trades, backtest_metrics, opened, book_at_open>>
    /\ UNCHANGED paper_vars
    /\ UNCHANGED <<risk_limits, last_call>>

\* one iteration of "for signal in signals"
ApplySignal ==
    /\ pc = "signals"
    /\ signal_idx <= Len(signals)
    /\ \E book \in {apply_signal(Book, signals[signal_idx], TradeDate, run_config)} :
        /\ run_cash' = book.cash
        /\ run_positions' = book.positions
        /\ run_trades' = book.trades
        /\ opened' = IF Len(book.positions) > Len(run_positions)
                     THEN opened + 1 ELSE opened
    /\ signal_idx' = signal_idx + 1
    /\ UNCHANGED <<run_config, prices_by_instrument, day_idx, signals, pc,
                   equity_curve, backtest_run, run_error, run_result, backtest_trades,
                   backtest_metrics, book_at_open>>
    /\ UNCHANGED paper_vars
    /\ UNCHANGED <<risk_limits, last_call>>

\* the equity point of the day, then the next day
MarkToMarket ==
    /\ pc = "signals"
    /\ signal_idx > Len(signals)
    /\ equity_curve' = Append(equity_curve,
            <<TradeDate, portfolio_value(run_cash, run_positions, prices_by_instrument,
                                          TradeDate, 1)>>)
    /\ IF day_idx < Len(trading_days(prices_by_instrument))
       THEN day_idx' = day_idx + 1 /\ pc' = "on_bar"
       ELSE day_idx' = day_idx /\ pc' = "close"
    /\ UNCHANGED <<run_config, prices_by_instrument, signals, signal_idx, run_cash,
                   run_positions, run_trades, backtest_run, run_error, run_result,
                   backtest_trades, backtest_metrics, opened, book_at_open>>
    /\ UNCHANGED paper_vars
    /\ UNCHANGED <<risk_limits, last_call>>

\* the forced close after the last day, and the BacktestResult
ForcedClose ==
    /\ pc = "close"
    /\ \E book \in {force_close(Book, prices_by_instrument, run_config, 1)} :
        /\ run_cash' = book.cash
        /\ run_trades' = book.trades
        /\ run_result' = [final_capital |-> book.cash,
                      metrics |-> _calculate_metrics(book.trades,
                                      run_config.initial_capital, book.cash),
                      trades |-> book.trades,
                      equity_curve |-> equity_curve]
    /\ pc' = "persist"
    /\ UNCHANGED <<run_config, prices_by_instrument, day_idx, signals, signal_idx,
                   run_positions, equity_curve, backtest_run, run_error,
                   backtest_trades, backtest_metrics, opened, book_at_open>>
    /\ UNCHANGED paper_vars
    /\ UNCHANGED <<risk_limits, last_call>>

\* Database.complete_backtest_run that leaves a row already completed alone
complete_backtest_run_once(row, final_capital, status, error_message) ==
    IF row.status # "running" THEN row
    ELSE [status |-> status, final_capital |-> final_capital,
          error_message |-> error_message]

\* Database.complete_backtest_run: the update of the row of the run
complete_backtest_run(row, final_capital, status, error_message) ==
    [row EXCEPT !.final_capital = final_capital,
                !.status = status,
                !.error_message = IF error_message # "" THEN error_message ELSE @]

Completed ==
    complete_backtest_run(backtest_run, run_result.final_capital, "completed", "")

\* complete_backtest_run, _persist_trades and _persist_metrics, then the return
CompleteRun ==
    /\ pc = "persist"
    /\ backtest_run' = Completed
    /\ backtest_trades' = run_result.trades
    /\ backtest_metrics' = <<run_result.metrics>>
    /\ pc' = "returned"
    /\ UNCHANGED <<run_config, prices_by_instrument, day_idx, signals, signal_idx,
                   run_cash, run_positions, run_trades, equity_curve, run_error, run_result, opened,
                   book_at_open>>
    /\ UNCHANGED paper_vars
    /\ UNCHANGED <<risk_limits, last_call>>

\* one of the three persistence calls raises; _persist_trades makes no call
\* when there are no trades
CompleteRunFault ==
    /\ pc = "persist"
    /\ \E fault \in PersistPoints :
        /\ fault = "_persist_trades" => run_result.trades # <<>>
        /\ backtest_run' = IF fault = "complete_backtest_run"
                           THEN backtest_run ELSE Completed
        /\ backtest_trades' = IF fault = "_persist_metrics"
                              THEN run_result.trades ELSE backtest_trades
        /\ run_error' = fault
    /\ pc' = "except"
    /\ UNCHANGED <<run_config, prices_by_instrument, day_idx, signals, signal_idx,
                   run_cash, run_positions, run_trades, equity_curve, run_result,
                   backtest_metrics, opened, book_at_open>>
    /\ UNCHANGED paper_vars
    /\ UNCHANGED <<risk_limits, last_call>>

\* the except clause of run: the run is marked failed and the error re-raised
FailRun ==
    /\ pc = "except"
    /\ backtest_run' = complete_backtest_run(backtest_run,
                            RInt(run_config.initial_capital), "failed", run_error)
    /\ pc' = "raised"
    /\ UNCHANGED <<run_config, prices_by_instrument, day_idx, signals, signal_idx,
                   run_cash, run_positions, run_trades, equity_curve, run_error, run_result,
                   backtest_trades, backtest_metrics, opened, book_at_open>>
    /\ UNCHANGED paper_vars
    /\ UNCHANGED <<risk_limits, last_call>>

NextBacktest ==
    \/ RunStart
    \/ OnBar
    \/ StrategyRaises
    \/ ApplySignal
    \/ MarkToMarket
    \/ ForcedClose
    \/ CompleteRun
    \/ CompleteRunFault
    \/ FailRun

SpecBacktest == Init /\ [][NextBacktest]_vars

----------------------------------------------------------------------------
(* Properties *)

\* The selections a pass can be called with: one account, or every account
PassAccounts == AccountIds \cup {None}

\* The price rows a pass can find for a date: any row, or none
AnyPriceMaps == UNION { [T -> Bars] : T \in SUBSET Instruments }

TerminalOrders(orders) ==
    { id \in DOMAIN orders : orders[id].status # "pending" }

\* C1: an order's status only moves from pending to filled or from pending to
\* cancelled.  Once it is filled or cancelled the row never changes again:
\* cancel_order on it returns False and writes nothing, and no pass, whatever
\* account and prices it is run with, processes it or writes to it.
C1_TerminalStatusIsFinal ==
    /\ [](/\ \A id \in DOMAIN paper_orders :
                paper_orders[id].status \in {"pending", "filled", "cancelled"}
          /\ \A id \in TerminalOrders(paper_orders) :
                cancel_order(paper_orders, id) =
                    [orders |-> paper_orders, result |-> FALSE]
          /\ \A account_id \in PassAccounts, price_map \in AnyPriceMaps :
                LET r == execute_orders(CurrentDb, account_id, price_map, 0, "none")
                IN  \A id \in TerminalOrders(paper_orders) :
                        /\ \A j \in DOMAIN r.summary.fills :
                                r.summary.fills[j].order_id # id
                        /\ r.db.orders[id] = paper_orders[id])
    /\ [][\A id \in DOMAIN paper_orders :
            /\ id \in DOMAIN paper_orders'
            /\ id \in TerminalOrders(paper_orders) =>
                    paper_orders'[id] = paper_orders[id]
            /\ paper_orders'[id].status \in
                    {paper_orders[id].status, "filled", "cancelled"}]_vars

\* A filled order, a cancelled order and a pending order side by side
C1_Witness ==
    \E i, j, k \in DOMAIN paper_orders :
        /\ paper_orders[i].status = "filled"
        /\ paper_orders[j].status = "cancelled"
        /\ paper_orders[k].status = "pending"
        /\ paper_orders[k].account_id = paper_orders[i].account_id

\* The holdings of the position rows
Holdings(positions) ==
    [k \in DOMAIN positions |->
        [quantity |-> positions[k].quantity,
         avg_entry_price |-> positions[k].avg_entry_price]]

\* The orders a step takes from pending to filled
FilledByStep ==
    { id \in DOMAIN paper_orders :
        /\ paper_orders[id].status = "pending"
        /\ id \in DOMAIN paper_orders'
        /\ paper_orders'[id].status = "filled" }

\* C2: the cash balance of an account and the quantity and average entry price
\* of its positions change only in a step that fills an order.  A step that
\* records an order (submit_order) appends exactly one row, pending with
\* filled_quantity 0, and fills none; cancel_order, create_snapshot and
\* update_position_prices fill none either, so all four leave cash and holdings
\* as they were.
C2_OnlyFillsMoveCashAndHoldings ==
    [][/\ FilledByStep = {} =>
            /\ \A a \in DOMAIN paper_accounts :
                    /\ a \in DOMAIN paper_accounts'
                    /\ paper_accounts'[a].cash_balance = paper_accounts[a].cash_balance
            /\ Holdings(paper_positions') = Holdings(paper_positions)
       /\ Len(paper_orders') # Len(paper_orders) =>
            /\ Len(paper_orders') = Len(paper_orders) + 1
            /\ SubSeq(paper_orders', 1, Len(paper_orders)) = paper_orders
            /\ paper_orders'[Len(paper_orders')].status = "pending"
            /\ paper_orders'[Len(paper_orders')].filled_quantity = 0
            /\ FilledByStep = {}
       /\ (\/ portfolio_snapshots' # portfolio_snapshots
           \/ \E id \in DOMAIN paper_orders :
                /\ id \in DOMAIN paper_orders'
                /\ paper_orders'[id].status = "cancelled"
                /\ paper_orders[id].status # "cancelled") =>
            FilledByStep = {}]_vars

\* An account that filled a market buy, cancelled another order, had the
\* position marked to a different close and took a snapshot
C2_Witness ==
    \E i, j \in DOMAIN paper_orders, d \in Dates :
        LET a == paper_orders[i].account_id
            key == <<a, paper_orders[i].instrument_id>>
        IN  /\ paper_orders[i].status = "filled"
            /\ paper_orders[i].order_side = "buy"
            /\ paper_orders[i].order_type = "market"
            /\ paper_orders[j].status = "cancelled"
            /\ paper_orders[j].account_id = a
            /\ key \in DOMAIN paper_positions
            /\ paper_positions[key].quantity = paper_orders[i].quantity
            /\ paper_positions[key].current_price # paper_orders[i].filled_avg_price
            /\ <<a, d>> \in DOMAIN portfolio_snapshots
            /\ portfolio_snapshots[<<a, d>>].cash_balance
                    = paper_accounts[a].cash_balance

\* What an order costs or yields on a day with price row bar
OrderValue(order, bar) ==
    (IF order.order_type = "limit" THEN order.limit_price ELSE bar.close)
        * order.quantity

\* C3: no account's cash balance is negative.  In every pass that can be run,
\* a buy whose fill price times quantity exceeds the cash the account has when
\* the order is reached, that is after the earlier orders of the pass, is
\* rejected and writes nothing, and a buy that fills debits the account by
\* exactly fill price times quantity.
C3_CashNeverNegative ==
    /\ \A a \in DOMAIN paper_accounts : paper_accounts[a].cash_balance >= 0
    /\ \A account_id \in PassAccounts, price_map \in AnyPriceMaps :
        \A r \in {execute_orders(CurrentDb, account_id, price_map, 0, "none")} :
          \A j \in DOMAIN r.summary.fills :
            LET f == r.summary.fills[j]
                o == r.pending_orders[j].row
                a == o.account_id
                cash0 == r.before[j].accounts[a].cash_balance
                cash1 == AfterOrder(r, j).accounts[a].cash_balance
            IN  (o.order_side = "buy" /\ o.instrument_id \in DOMAIN price_map) =>
                    /\ OrderValue(o, price_map[o.instrument_id]) > cash0 =>
                            ~f.success /\ AfterOrder(r, j) = r.before[j]
                    /\ f.success =>
                            /\ f.fill_price * o.quantity
                                    = OrderValue(o, price_map[o.instrument_id])
                            /\ cash1 = cash0 - f.fill_price * o.quantity
                            /\ cash1 >= 0

\* A market buy still pending although a later order of the same account was
\* filled: the pass that filled the later one found the cash too low for it
C3_Witness ==
    \E j, k \in DOMAIN paper_orders :
        /\ j < k
        /\ paper_orders[j].account_id = paper_orders[k].account_id
        /\ paper_orders[j].status = "pending"
        /\ paper_orders[j].order_side = "buy"
        /\ paper_orders[j].order_type = "market"
        /\ paper_orders[k].status = "filled"
        /\ paper_accounts[paper_orders[j].account_id].cash_balance
                < paper_orders[j].quantity

\* The quantity held of a pair, 0 when it has no position row
Held(positions, key) ==
    IF key \in DOMAIN positions THEN positions[key].quantity ELSE 0

\* C4: no position's quantity is negative, and a pair that has a filled order
\* has a position row.  In every pass that can be run, a sell of more than the
\* quantity held when the order is reached is rejected and writes nothing,
\* although submit_order accepted it; a sell that fills takes exactly its
\* quantity off the position and leaves the row in place, also at quantity 0.
C4_QuantityNeverNegative ==
    /\ \A key \in DOMAIN paper_positions : paper_positions[key].quantity >= 0
    /\ \A id \in DOMAIN paper_orders :
            paper_orders[id].status = "filled" =>
                <<paper_orders[id].account_id, paper_orders[id].instrument_id>>
                    \in DOMAIN paper_positions
    /\ \A account_id \in PassAccounts, price_map \in AnyPriceMaps :
        \A r \in {execute_orders(CurrentDb, account_id, price_map, 0, "none")} :
          \A j \in DOMAIN r.summary.fills :
            LET f == r.summary.fills[j]
                o == r.pending_orders[j].row
                key == <<o.account_id, o.instrument_id>>
                held0 == Held(r.before[j].positions, key)
            IN  o.order_side = "sell" =>
                    /\ o.quantity > held0 =>
                            ~f.success /\ AfterOrder(r, j) = r.before[j]
                    /\ f.success =>
                            /\ key \in DOMAIN AfterOrder(r, j).positions
                            /\ AfterOrder(r, j).positions[key].quantity
                                    = held0 - o.quantity
                            /\ held0 - o.quantity >= 0

\* Two sells accepted against the same holding: the first was filled and took
\* the position to 0, where its row remains; the second, a market sell, was
\* refused by the pass and is still pending
C4_Witness ==
    \E i, j \in DOMAIN paper_orders :
        LET key == <<paper_orders[i].account_id, paper_orders[i].instrument_id>>
        IN  /\ i < j
            /\ paper_orders[j].account_id = paper_orders[i].account_id
            /\ paper_orders[j].instrument_id = paper_orders[i].instrument_id
            /\ paper_orders[i].order_side = "sell"
            /\ paper_orders[i].status = "filled"
            /\ paper_orders[j].order_side = "sell"
            /\ paper_orders[j].order_type = "market"
            /\ paper_orders[j].status = "pending"
            /\ key \in DOMAIN paper_positions
            /\ paper_positions[key].quantity = 0

\* C5: the realized_pnl of every position row equals the sum, over the sells
\* filled so far for its account and instrument, of (fill price - average entry
\* price at that fill) * quantity, also at quantity 0 and after a later buy.
C5_RealizedPnlAccumulates ==
    \A key \in DOMAIN paper_positions :
        paper_positions[key].realized_pnl = expected_realized[key]

\* The orders pending for the selection of a pass
Selected(orders, account_id) ==
    { id \in DOMAIN orders :
        /\ orders[id].status = "pending"
        /\ account_id # None => orders[id].account_id = account_id }

\* C6: in every pass that can be run, the summary's fills are one FillResult
\* for each order pending for the selected account when the pass starts, in
\* submission order; orders_processed is their number and equals orders_filled
\* plus orders_rejected; an order with a successful FillResult is filled after
\* the pass, and an order with an unsuccessful one is unchanged, still pending,
\* and among the orders the next pass with the same selection reads.
C6_OneResultPerPendingOrder ==
    \A account_id \in PassAccounts, price_map \in AnyPriceMaps :
      \A r \in {execute_orders(CurrentDb, account_id, price_map, 0, "none")} :
        LET fills == r.summary.fills
            sel == Selected(paper_orders, account_id)
        IN  /\ ~r.raised
            /\ Len(fills) = Cardinality(sel)
            /\ { fills[j].order_id : j \in DOMAIN fills } = sel
            /\ \A j, k \in DOMAIN fills :
                    j < k => fills[j].order_id < fills[k].order_id
            /\ r.summary.orders_processed = Cardinality(sel)
            /\ r.summary.orders_filled =
                    Cardinality({ j \in DOMAIN fills : fills[j].success })
            /\ r.summary.orders_rejected =
                    Cardinality({ j \in DOMAIN fills : ~fills[j].success })
            /\ r.summary.orders_processed =
                    r.summary.orders_filled + r.summary.orders_rejected
            /\ \A j \in DOMAIN fills :
                LET id == fills[j].order_id IN
                IF fills[j].success
                THEN /\ r.db.orders[id].status = "filled"
                     /\ r.db.orders[id].filled_quantity = paper_orders[id].quantity
                ELSE /\ r.db.orders[id] = paper_orders[id]
                     /\ id \in Selected(r.db.orders, account_id)
                     /\ \E k \in DOMAIN PendingOrders(r.db.orders, account_id) :
                            PendingOrders(r.db.orders, account_id)[k].id = id

\* A limit order still pending although a later order of the same account was
\* filled: one pass returned an unsuccessful and a successful FillResult
C6_Witness ==
    \E j, k \in DOMAIN paper_orders :
        /\ j < k
        /\ paper_orders[j].account_id = paper_orders[k].account_id
        /\ paper_orders[j].status = "pending"
        /\ paper_orders[j].order_type = "limit"
        /\ paper_orders[k].status = "filled"

\* The low and the high a price row gives the limit check: its own, or the
\* close when the row has none
LowOf(bar) == IF bar.low = None THEN bar.close ELSE bar.low
HighOf(bar) == IF bar.high = None THEN bar.close ELSE bar.high

Reachable(order, bar) ==
    order.order_type = "limit" =>
        IF order.order_side = "buy"
        THEN LowOf(bar) <= order.limit_price
        ELSE HighOf(bar) >= order.limit_price

\* The account can pay for the buy, or holds what the sell sells
Funded(db, order, bar) ==
    IF order.order_side = "buy"
    THEN db.accounts[order.account_id].cash_balance >= OrderValue(order, bar)
    ELSE Held(db.positions, <<order.account_id, order.instrument_id>>)
            >= order.quantity

\* The result of processing the pending order id on a day whose price row is bar
ProcessedOn(id, bar) ==
    _process_order(CurrentDb, id, paper_orders[id],
                   [i \in {paper_orders[id].instrument_id} |-> bar], "none")

\* C7: for a pending order and any price row of its instrument: the order
\* fills exactly when its limit, if it has one, is reachable (buy: low <= limit,
\* sell: high >= limit, a missing low or high being the close) and the account
\* can pay for it or holds what it sells; a market order that fills does so at
\* the close and a limit order at exactly its limit price; a limit order whose
\* limit is not reachable is rejected with the limit-not-reached message, writes
\* nothing and stays pending.
C7_FillPriceAndLimitRule ==
    \A id \in DOMAIN paper_orders, bar \in Bars :
        paper_orders[id].status = "pending" =>
            \A r \in {ProcessedOn(id, bar)} :
                LET o == paper_orders[id] IN
                /\ r.result.success <=>
                        Reachable(o, bar) /\ Funded(CurrentDb, o, bar)
                /\ r.result.success =>
                        /\ r.result.fill_price =
                                IF o.order_type = "limit" THEN o.limit_price
                                ELSE bar.close
                        /\ r.db.orders[id].status = "filled"
                        /\ r.db.orders[id].filled_avg_price = r.result.fill_price
                /\ ~Reachable(o, bar) =>
                        /\ r.result.message = "Limit price not reached"
                        /\ r.db = CurrentDb

\* C7 as first stated: a limit order fills if and only if the day's low (buy)
\* or high (sell) reaches the limit.
C7_LimitFillsIffReached ==
    \A id \in DOMAIN paper_orders, bar \in Bars :
        (/\ paper_orders[id].status = "pending"
         /\ paper_orders[id].order_type = "limit"
         /\ bar.low # None
         /\ bar.high # None) =>
            (ProcessedOn(id, bar).result.success <=>
                IF paper_orders[id].order_side = "buy"
                THEN bar.low <= paper_orders[id].limit_price
                ELSE bar.high >= paper_orders[id].limit_price)

\* A limit buy filled at its limit price on a day that closed above it, beside
\* a limit sell of the same account that is still pending
C7_Witness ==
    \E i, j \in DOMAIN paper_orders :
        LET key == <<paper_orders[i].account_id, paper_orders[i].instrument_id>>
        IN  /\ paper_orders[i].order_type = "limit"
            /\ paper_orders[i].order_side = "buy"
            /\ paper_orders[i].status = "filled"
            /\ paper_orders[i].filled_avg_price = paper_orders[i].limit_price
            /\ paper_positions[key].current_price > paper_orders[i].limit_price
            /\ paper_orders[j].account_id = paper_orders[i].account_id
            /\ paper_orders[j].order_type = "limit"
            /\ paper_orders[j].order_side = "sell"
            /\ paper_orders[j].status = "pending"

\* Calls of submit_order, well-formed and not: every account and an id that is
\* none, listed and unlisted symbols, every side, quantities from 0 to one more
\* than can be held, every order type with and without a limit price
SubmitCalls ==
    (AccountIds \cup {Len(AccountNames) + 1}) \X Symbols \X Sides
        \X (0..3) \X OrderKinds

\* The conditions under which submit_order refuses a call
Refused(call) ==
    LET account_id == call[1]
        symbol == call[2]
        side == call[3]
        quantity == call[4]
        order_type == call[5][1]
        limit_price == call[5][2]
    IN  \/ side \notin {"buy", "sell"}
        \/ quantity <= 0
        \/ order_type = "limit" /\ limit_price = None
        \/ account_id \notin DOMAIN paper_accounts
        \/ symbol # "AAA"
        \/ /\ side = "sell"
           /\ \A key \in DOMAIN paper_positions :
                (key[1] = account_id /\ key[2] = 1) =>
                    paper_positions[key].quantity < quantity

\* C8: submit_order returns success False with order_id 0 and leaves the
\* orders table as it was exactly when the side is neither buy nor sell, the
\* quantity is not positive, a limit order has no limit price, the account does
\* not exist, the symbol is not listed, or a sell asks for more than the
\* position holds (or there is none); in every other case it returns success
\* True with the new order's id and appends exactly one order, pending, with the
\* call's values.  It always returns a result.
C8_SubmitRefusesExactly ==
    \A call \in SubmitCalls :
        \A r \in {submit_order(paper_accounts, paper_orders, paper_positions,
                    call[1], call[2], call[3], call[4], call[5][1], call[5][2])} :
            IF Refused(call)
            THEN /\ r.result.success = FALSE
                 /\ r.result.order_id = 0
                 /\ r.orders = paper_orders
            ELSE /\ r.result.success = TRUE
                 /\ r.result.order_id = Len(paper_orders) + 1
                 /\ Len(r.orders) = Len(paper_orders) + 1
                 /\ SubSeq(r.orders, 1, Len(paper_orders)) = paper_orders
                 /\ r.orders[Len(r.orders)] =
                        [account_id |-> call[1], instrument_id |-> 1,
                         order_side |-> call[3], order_type |-> call[5][1],
                         quantity |-> call[4], limit_price |-> call[5][2],
                         status |-> "pending", filled_quantity |-> 0,
                         filled_avg_price |-> None]

\* One account, holding 1 with a sell of it accepted and pending: a further
\* sell of 1 is still accepted, a sell of 2 and any order of a second account
\* are refused
C8_Witness ==
    /\ Len(paper_accounts) = 1
    /\ \E id \in DOMAIN paper_orders :
        /\ paper_orders[id].status = "pending"
        /\ paper_orders[id].order_side = "sell"
        /\ paper_orders[id].account_id = 1
        /\ paper_positions[<<1, paper_orders[id].instrument_id>>].quantity = 1
    /\ \E call \in SubmitCalls : call[3] = "sell" /\ call[1] = 1 /\ ~Refused(call)
    /\ \E call \in SubmitCalls :
        call[3] = "sell" /\ call[1] = 1 /\ call[4] = 2 /\ Refused(call)

\* The messages of the rejections of _process_order
RejectionMessages ==
    {"No price data", "Limit price not reached", "Account not found",
     "Insufficient cash", "Insufficient position"}

\* The database with one more pending order, a unit market order of an account
\* id that has no row
WithOrphanOrder(side) ==
    [CurrentDb EXCEPT !.orders =
        submit_paper_order(paper_orders, Len(AccountNames) + 1, 1, side, 1,
                           "market", None)]

\* C9: in every pass that can be run, on a day with or without a price row, an
\* order the executor rejects (no price, limit not reached, insufficient cash,
\* insufficient position) leaves the whole database, and so the cash balance,
\* every position row and the order's own row, as it found it; so does a
\* rejection for an account that is not found.
C9_RejectionWritesNothing ==
    /\ \A account_id \in PassAccounts, price_map \in AnyPriceMaps :
        \A r \in {execute_orders(CurrentDb, account_id, price_map, 0, "none")} :
          \A j \in DOMAIN r.summary.fills :
            ~r.summary.fills[j].success =>
                /\ AfterOrder(r, j) = r.before[j]
                /\ r.summary.fills[j].message \in RejectionMessages
    /\ \A side \in {"buy", "sell"}, price_map \in AnyPriceMaps :
        \A db \in {WithOrphanOrder(side)} :
          \A r \in {_process_order(db, Len(db.orders), db.orders[Len(db.orders)],
                                   price_map, "none")} :
            /\ ~r.result.success
            /\ r.db = db
            /\ price_map # <<>> => r.result.message = "Account not found"

\* A market order still pending, with no balance update made for it, although
\* a later order of the same account was filled by a pass that reached it first
C9_Witness ==
    \E j, k \in DOMAIN paper_orders :
        /\ j < k
        /\ paper_orders[j].account_id = paper_orders[k].account_id
        /\ paper_orders[j].status = "pending"
        /\ paper_orders[j].order_type = "market"
        /\ paper_orders[j].filled_quantity = 0
        /\ paper_orders[j].filled_avg_price = None
        /\ cash_writes[j] = 0
        /\ paper_orders[k].status = "filled"
        /\ cash_writes[k] = 1

\* C10: when a persistence call of a pass fails partway through an order, no
\* order is left pending with a balance update already made for it.
C10_NoHalfAppliedOrder ==
    \A id \in DOMAIN paper_orders :
        cash_writes[id] > 0 => paper_orders[id].status = "filled"

----------------------------------------------------------------------------
(* Backtest: the properties *)

\* "for signal in signals", from signal k on
RECURSIVE apply_signals(_, _, _, _, _)
apply_signals(book, sigs, k, date, config) ==
    IF k > Len(sigs) THEN book
    ELSE apply_signals(apply_signal(book, sigs[k], date, config), sigs, k + 1,
                       date, config)

\* the day's signals have all been applied, the equity point is not yet taken
DayApplied == pc = "signals" /\ signal_idx > Len(signals)

(* C11: within one trading day every SELL signal collected that day is applied
   before any BUY signal of the day, whatever the order of emission: cash,
   positions and trades after the day's signals are what applying the SELLs
   first and the BUYs after them gives, so that a BUY of an earlier instrument
   is honoured when a SELL of a later instrument frees its slot or its cash *)
C11_SellsAppliedBeforeBuys ==
    DayApplied =>
        LET sells == SelectSeq(signals, LAMBDA g : g.signal_type = "SELL")
            buys == SelectSeq(signals, LAMBDA g : g.signal_type = "BUY")
        IN  Book = apply_signals(book_at_open, sells \o buys, 1, TradeDate,
                                 run_config)

\* the signal the loop is about to apply
AtSignal == pc = "signals" /\ signal_idx <= Len(signals)

\* a BUY that the test of engine.py:361 does not let through
BuyNotHonoured(open, g) ==
    /\ g.signal_type = "BUY"
    /\ \/ g.instrument_id \in Open(open)
       \/ Len(open) >= run_config.max_positions

(* C12: at every point of a backtest run there is at most one open position per
   instrument and at most max_positions open positions; a BUY signal for an
   instrument that already has an open position, or arriving while
   max_positions positions are open, changes neither the positions nor cash *)
C12_OnePositionPerInstrument ==
    /\ [](pc # "idle" =>
            /\ \A j, k \in DOMAIN run_positions :
                run_positions[j].instrument_id = run_positions[k].instrument_id
                    => j = k
            /\ Len(run_positions) <= run_config.max_positions)
    /\ [][AtSignal /\ BuyNotHonoured(run_positions, signals[signal_idx])
            => run_positions' = run_positions /\ run_cash' = run_cash]_vars

\* a BUY of an instrument that is not open has been refused, the positions
\* being full
C12_Witness ==
    /\ pc = "signals"
    /\ signal_idx = 2
    /\ BuyNotHonoured(book_at_open.positions, signals[1])
    /\ Book = book_at_open
    /\ signals[1].instrument_id \notin Open(run_positions)

\* the result has been built: the simulation and the forced close are over
ResultBuilt == run_result # NoResult

(* C13: when a backtest run completes no position is left open: every position
   opened during the run has produced exactly one Trade, by a SELL signal or by
   the forced close at the end (exit_reason backtest_end, priced at the last
   close of the instrument on or before end_date), and no Trade is created
   without an open position: a SELL signal for an instrument with no open
   position changes nothing *)
C13_EveryPositionClosedOnce ==
    /\ [](pc \in {"on_bar", "signals", "close"} =>
            Len(run_trades) + Len(run_positions) = opened)
    /\ [](ResultBuilt =>
            /\ Len(run_trades) = opened
            /\ \A k \in DOMAIN run_trades :
                run_trades[k].exit_reason \in {"strategy_exit", "backtest_end"}
            /\ \A i \in Universe :
                LET forced == { k \in DOMAIN run_trades :
                                  /\ run_trades[k].exit_reason = "backtest_end"
                                  /\ run_trades[k].instrument_id = i }
                IN  IF i \in Open(run_positions)
                    THEN \E k \in forced :
                        LET bars == prices_by_instrument[i]
                            last == CHOOSE b \in DOMAIN bars :
                                      /\ bars[b].trade_date <= end_date
                                      /\ \A c \in DOMAIN bars :
                                          bars[c].trade_date <= bars[b].trade_date
                        IN  /\ forced = {k}
                            /\ run_trades[k].entry_date =
                                  PositionOf(run_positions, i).entry_date
                            /\ run_trades[k].quantity =
                                  PositionOf(run_positions, i).quantity
                            /\ run_trades[k].exit_price =
                                  RMul(RInt(bars[last].close),
                                       RSub(ROne, run_config.slippage_pct))
                    ELSE forced = {})
    /\ [][/\ AtSignal
          /\ signals[signal_idx].signal_type = "SELL"
          /\ signals[signal_idx].instrument_id \notin Open(run_positions)
          => UNCHANGED <<run_cash, run_positions, run_trades>>]_vars

\* a run has returned with one position closed by a SELL signal and another by
\* the forced close
C13_Witness ==
    /\ pc = "returned"
    /\ opened = 2
    /\ \E j, k \in DOMAIN run_trades :
        /\ run_trades[j].exit_reason = "strategy_exit"
        /\ run_trades[k].exit_reason = "backtest_end"

(* C14: for every Trade a backtest produces, pnl = net sell proceeds (gross
   proceeds less the exit commission) less the entry_value of the position
   (entry cost plus entry commission), and the commission of the Trade is the
   entry commission plus the exit commission; the cash credited on the close
   less the cash debited on the open equals that pnl *)
C14_TradePnlIsNetOfBothCommissions ==
    [][LET made == { k \in DOMAIN run_trades' : k > Len(run_trades) }
           taken == { k \in DOMAIN run_positions' : k > Len(run_positions) }
           rate == run_config.commission_pct
           entry(k) == PositionOf(run_positions, run_trades'[k].instrument_id)
           cost(p) == RMul(RInt(p.quantity), p.entry_price)
           gross(k) == RMul(RInt(run_trades'[k].quantity), run_trades'[k].exit_price)
           net(k) == RSub(gross(k), RMul(gross(k), rate))
       IN  /\ \A k \in made :
                /\ run_trades'[k].instrument_id \in Open(run_positions)
                /\ run_trades'[k].quantity = entry(k).quantity
                /\ run_trades'[k].pnl = RSub(net(k), entry(k).entry_value)
                /\ run_trades'[k].commission =
                      RAdd(RMul(cost(entry(k)), rate), RMul(gross(k), rate))
           /\ \A k \in taken :
                run_positions'[k].entry_value =
                    RAdd(cost(run_positions'[k]), RMul(cost(run_positions'[k]), rate))
           /\ made # {} \/ taken # {} =>
                RSub(run_cash', run_cash) =
                    RSub(SeqSum([k \in 1..Cardinality(made) |->
                                  RAdd(run_trades'[Len(run_trades) + k].pnl,
                                       entry(Len(run_trades) + k).entry_value)], 1),
                         SeqSum([k \in 1..Cardinality(taken) |->
                                  run_positions'[Len(run_positions) + k].entry_value], 1))
      ]_vars

\* a run with commission and slippage has returned a trade closed by a signal
\* and a trade closed at the end
C14_Witness ==
    /\ pc = "returned"
    /\ run_config.commission_pct = Half
    /\ run_config.slippage_pct = Half
    /\ \E j, k \in DOMAIN run_trades :
        /\ run_trades[j].exit_reason = "strategy_exit"
        /\ run_trades[k].exit_reason = "backtest_end"
        /\ RLess(RZero, run_trades[k].commission)

(* C15: for every completed backtest run final_capital = initial_capital + the
   sum of pnl over the trades of the run; with slippage_pct = 0 and
   commission_pct = 0 a position bought and sold at the same price yields a
   trade with pnl exactly 0, and final_capital exactly initial_capital when
   every trade is such *)
C15_FinalCapitalIsInitialPlusPnl ==
    ResultBuilt =>
        LET frictionless == /\ run_config.slippage_pct = RZero
                            /\ run_config.commission_pct = RZero
            flat(t) == t.exit_price = t.entry_price
        IN  /\ run_result.final_capital =
                  RAdd(RInt(run_config.initial_capital),
                       SeqSum(PnlOf(run_result.trades), 1))
            /\ pc = "returned" =>
                  /\ backtest_run.status = "completed"
                  /\ backtest_run.final_capital = run_result.final_capital
            /\ frictionless =>
                  /\ \A k \in DOMAIN run_result.trades :
                        flat(run_result.trades[k]) =>
                            run_result.trades[k].pnl = RZero
                  /\ (\A k \in DOMAIN run_result.trades : flat(run_result.trades[k]))
                        => run_result.final_capital = RInt(run_config.initial_capital)

\* a frictionless run has returned one trade bought and sold at the same price
\* and another trade with a loss
C15_Witness ==
    /\ pc = "returned"
    /\ run_config.slippage_pct = RZero
    /\ run_config.commission_pct = RZero
    /\ \E j, k \in DOMAIN run_result.trades :
        /\ run_result.trades[j].exit_price = run_result.trades[j].entry_price
        /\ run_result.trades[j].pnl = RZero
        /\ RLess(run_result.trades[k].pnl, RZero)

\* the day loop is over
DaysDone == pc = "close" \/ ResultBuilt

(* C16: the equity curve has exactly one (date, value) point per distinct date
   that appears in the bars of any instrument within the range, in ascending
   order of date, the days on which only some instruments have a bar included *)
C16_OneEquityPointPerTradingDate ==
    LET dates == { d \in TradeDates :
                     \E i \in DOMAIN prices_by_instrument :
                        \E k \in DOMAIN prices_by_instrument[i] :
                            prices_by_instrument[i][k].trade_date = d }
    IN  /\ \A k \in DOMAIN equity_curve : equity_curve[k][1] \in dates
        /\ \A j, k \in DOMAIN equity_curve :
                j < k => equity_curve[j][1] < equity_curve[k][1]
        /\ DaysDone =>
                { equity_curve[k][1] : k \in DOMAIN equity_curve } = dates
        /\ ResultBuilt => run_result.equity_curve = equity_curve

\* a run has returned a curve of two points, one of them for a day on which
\* only one of the two instruments has a bar
C16_Witness ==
    /\ pc = "returned"
    /\ Len(run_result.equity_curve) = 2
    /\ DOMAIN prices_by_instrument = Universe
    /\ \E i \in Universe : Len(prices_by_instrument[i]) = 1

(* C17: whenever BacktestEngine.run raises (empty trading calendar, an error
   raised by the strategy during the simulation, or a failure while persisting
   the result) the last status recorded for the run is failed, with
   final_capital = initial_capital and the message of the triggering error, and
   that error is the one raised to the caller; whenever run returns a result
   the last status recorded is completed with the final_capital of the result *)
C17_RaisedRunIsRecordedFailed ==
    /\ pc = "raised" =>
        /\ backtest_run.status = "failed"
        /\ backtest_run.final_capital = RInt(run_config.initial_capital)
        /\ backtest_run.error_message = run_error
        /\ run_error \in PersistPoints \cup
                {"strategy error",
                 "No trading days found in the specified date range"}
        /\ trading_days(prices_by_instrument) = <<>> <=>
                run_error = "No trading days found in the specified date range"
        /\ run_error \in PersistPoints <=> ResultBuilt
    /\ pc = "returned" =>
        /\ ResultBuilt
        /\ backtest_run.status = "completed"
        /\ backtest_run.final_capital = run_result.final_capital
        /\ backtest_run.error_message = ""

\* run has raised after the row of the run was marked completed: the
\* persisting of the trades or of the metrics failed
C17_Witness ==
    /\ pc = "raised"
    /\ run_error \in {"_persist_trades", "_persist_metrics"}
    /\ run_result.final_capital # RInt(run_config.initial_capital)

(* C18: in the backtest metrics every trade is classified exactly once, as
   winning if pnl > 0 and as losing if pnl <= 0 (a trade with pnl 0 is a loss),
   so that winning_trades + losing_trades = total_trades; profit_factor is null
   exactly when the gross loss is 0 *)
C18_EveryTradeWinsOrLoses ==
    ResultBuilt =>
        LET closed == run_result.trades
            metrics == run_result.metrics
            wins == { k \in DOMAIN closed : closed[k].pnl.n > 0 }
            losses == { k \in DOMAIN closed : closed[k].pnl.n <= 0 }
            lost == SeqSum([k \in DOMAIN closed |->
                              IF k \in losses THEN closed[k].pnl ELSE RZero], 1)
        IN  /\ metrics.winning_trades = Cardinality(wins)
            /\ metrics.losing_trades = Cardinality(losses)
            /\ metrics.total_trades = Len(closed)
            /\ metrics.winning_trades + metrics.losing_trades = metrics.total_trades
            /\ metrics.profit_factor = NoneRat <=> lost = RZero
            /\ metrics.profit_factor # NoneRat =>
                  RMul(metrics.profit_factor, RAbs(lost)) =
                      SeqSum([k \in DOMAIN closed |->
                                IF k \in wins THEN closed[k].pnl ELSE RZero], 1)

\* the metrics of a result with a winning trade and a trade of pnl 0: one win,
\* one loss, no profit factor
C18_Witness ==
    /\ ResultBuilt
    /\ run_result.metrics.winning_trades = 1
    /\ run_result.metrics.losing_trades = 1
    /\ \E k \in DOMAIN run_result.trades : run_result.trades[k].pnl = RZero
    /\ run_result.metrics.profit_factor = NoneRat

----------------------------------------------------------------------------
(* PortfolioAnalyzer (paper/metrics.py) and RiskManager (paper/risk.py) *)

RECURSIVE Reversed(_)
Reversed(xs) ==
    IF xs = <<>> THEN <<>> ELSE Append(Reversed(Tail(xs)), Head(xs))

\* Database.get_paper_orders: the ids of the account's orders of the status,
\* newest first by submitted_at, at most limit of them
get_paper_orders(orders, account_id, status, limit) ==
    LET keep == [k \in DOMAIN orders |->
                    /\ orders[k].account_id = account_id
                    /\ orders[k].status = status]
        ids == Reversed(SelectIds(orders, keep, 1))
    IN  SubSeq(ids, 1, IF Len(ids) < limit THEN Len(ids) ELSE limit)

\* Database.get_paper_positions(account_id, include_closed=True): the
\* instruments of the account's rows, those of quantity 0 included
get_paper_positions_include_closed(positions, account_id) ==
    { k[2] : k \in { key \in DOMAIN positions : key[1] = account_id } }

\* the filled sell orders among the ids
SellOrders(orders, ids) ==
    SelectSeq(ids, LAMBDA id : orders[id].order_side = "sell")

\* "pnl = (fill_price - avg_entry) * quantity" of both functions: the average
\* entry price is the one the position row holds now
OrderPnl(orders, positions, id) ==
    LET fill_price == IF orders[id].filled_avg_price # None
                      THEN orders[id].filled_avg_price ELSE 0
        pos == positions[<<orders[id].account_id, orders[id].instrument_id>>]
    IN  RMul(RSub(RInt(fill_price), pos.avg_entry_price), RInt(orders[id].quantity))

\* PortfolioAnalyzer._calculate_trade_stats: the three counts
_calculate_trade_stats(orders, positions, account_id) ==
    LET sell_orders == SellOrders(orders,
                            get_paper_orders(orders, account_id, "filled", 1000))
        position_map == get_paper_positions_include_closed(positions, account_id)
        found == SelectSeq(sell_orders,
                    LAMBDA id : orders[id].instrument_id \in position_map)
        wins == SelectSeq(found,
                    LAMBDA id : RLess(RZero, OrderPnl(orders, positions, id)))
        losses == SelectSeq(found,
                    LAMBDA id : RLess(OrderPnl(orders, positions, id), RZero))
    IN  [total_trades |-> Len(wins) + Len(losses),
         winning_trades |-> Len(wins),
         losing_trades |-> Len(losses)]

\* the loop of _calculate_losing_streak from the k-th sell order on
RECURSIVE StreakFrom(_, _, _, _, _)
StreakFrom(orders, positions, position_map, sell_orders, k) ==
    IF k > Len(sell_orders) THEN 0
    ELSE IF orders[sell_orders[k]].instrument_id \notin position_map
         THEN StreakFrom(orders, positions, position_map, sell_orders, k + 1)
    ELSE IF RLess(OrderPnl(orders, positions, sell_orders[k]), RZero)
         THEN 1 + StreakFrom(orders, positions, position_map, sell_orders, k + 1)
    ELSE 0

\* RiskManager._calculate_losing_streak
_calculate_losing_streak(orders, positions, account_id) ==
    StreakFrom(orders, positions,
               get_paper_positions_include_closed(positions, account_id),
               SellOrders(orders, get_paper_orders(orders, account_id, "filled", 50)),
               1)

\* the filled sell orders of the account
FilledSells(account_id) ==
    { id \in DOMAIN paper_orders :
        /\ paper_orders[id].account_id = account_id
        /\ paper_orders[id].status = "filled"
        /\ paper_orders[id].order_side = "sell" }

(* C19: in the trade statistics of the Portfolio Analyzer every filled sell
   order of the account is counted as one trade, as a win if its pnl > 0 and as
   a loss otherwise: a sell with pnl exactly 0 is a losing trade, and
   winning_trades + losing_trades = total_trades = the number of filled sells *)
C19_EveryFilledSellIsOneTrade ==
    \A account_id \in AccountIds :
        \A stats \in {_calculate_trade_stats(paper_orders, paper_positions,
                                             account_id)} :
            /\ stats.total_trades = Cardinality(FilledSells(account_id))
            /\ stats.winning_trades + stats.losing_trades = stats.total_trades
            /\ stats.winning_trades =
                  Cardinality({ id \in FilledSells(account_id) :
                      RLess(RZero, OrderPnl(paper_orders, paper_positions, id)) })
            /\ stats.losing_trades =
                  Cardinality({ id \in FilledSells(account_id) :
                      ~RLess(RZero, OrderPnl(paper_orders, paper_positions, id)) })

\* the streak of realized losses: the newest filled sells whose realized P&L
\* at their fill was negative, up to the first that was not
RECURSIVE LossesFrom(_, _)
LossesFrom(sell_orders, k) ==
    IF k > Len(sell_orders) THEN 0
    ELSE IF RLess(sell_pnl[sell_orders[k]], RZero)
         THEN 1 + LossesFrom(sell_orders, k + 1)
    ELSE 0

(* C20: after any sequence of executor fills the losing_streak reported by
   compute_risk_metrics is the number of consecutive most recent filled sells,
   newest first, whose realized P&L at the time of their fill was negative,
   stopping at the first sell whose realized P&L was not negative; sells that
   closed their position completely and sells followed by later buys of the
   instrument included *)
C20_LosingStreakCountsRealizedLosses ==
    \A account_id \in AccountIds :
        _calculate_losing_streak(paper_orders, paper_positions, account_id) =
            LossesFrom(SellOrders(paper_orders,
                          get_paper_orders(paper_orders, account_id, "filled", 50)), 1)

----------------------------------------------------------------------------
(* BacktestEngine: cash *)

\* C29: at every point of a backtest run cash is at least 0: the total cost of
\* an opened position (quantity * execution price, plus the entry commission)
\* never exceeds the cash available immediately before the buy.
C29_CashNeverNegative ==
    ~RLess(run_cash, RZero)

----------------------------------------------------------------------------
(* EODExecutor: an order is filled once *)

\* what the filled orders 1..k of the account moved into its cash: minus
\* filled_avg_price * quantity per buy, plus it per sell
RECURSIVE NetCashOf(_, _, _)
NetCashOf(orders, account_id, k) ==
    IF k = 0 THEN 0
    ELSE NetCashOf(orders, account_id, k - 1) +
         (IF orders[k].account_id = account_id /\ orders[k].status = "filled"
          THEN (IF orders[k].order_side = "buy" THEN 0 - 1 ELSE 1)
                    * orders[k].filled_avg_price * orders[k].quantity
          ELSE 0)

\* what the filled orders 1..k of the pair moved into its position
RECURSIVE NetQuantityOf(_, _, _)
NetQuantityOf(orders, key, k) ==
    IF k = 0 THEN 0
    ELSE NetQuantityOf(orders, key, k - 1) +
         (IF /\ <<orders[k].account_id, orders[k].instrument_id>> = key
             /\ orders[k].status = "filled"
          THEN (IF orders[k].order_side = "buy" THEN 1 ELSE 0 - 1)
                    * orders[k].quantity
          ELSE 0)

\* C30: across any sequence of passes run to completion, interleaved with
\* submit_order and cancel_order, each order is filled at most once: a filled
\* order has had exactly one balance update and every other order none, every
\* account's cash is its initial balance less fill price times quantity of each
\* of its filled buys plus that of each of its filled sells, every position's
\* quantity is the filled buys less the filled sells of its pair, and a filled
\* or cancelled order is never changed again, so a cancelled order is never
\* filled.
C30_EachOrderFilledAtMostOnce ==
    /\ [](/\ \A id \in DOMAIN paper_orders :
                /\ cash_writes[id] <= 1
                /\ cash_writes[id] = 1 <=> paper_orders[id].status = "filled"
                /\ paper_orders[id].status \in {"pending", "filled", "cancelled"}
          /\ \A a \in DOMAIN paper_accounts :
                paper_accounts[a].cash_balance =
                    paper_accounts[a].initial_balance
                        + NetCashOf(paper_orders, a, Len(paper_orders))
          /\ \A a \in AccountIds, i \in Instruments :
                Held(paper_positions, <<a, i>>) =
                    NetQuantityOf(paper_orders, <<a, i>>, Len(paper_orders)))
    /\ [][\A id \in DOMAIN paper_orders :
            paper_orders[id].status \in {"filled", "cancelled"} =>
                /\ paper_orders'[id] = paper_orders[id]
                /\ cash_writes'[id] = cash_writes[id]]_vars

\* A buy filled by one pass, a sell of the same account submitted after it and
\* filled by a later pass, and a cancelled order
C30_Witness ==
    \E j, k, c \in DOMAIN paper_orders :
        /\ j < k
        /\ paper_orders[j].account_id = paper_orders[k].account_id
        /\ paper_orders[j].order_side = "buy"
        /\ paper_orders[j].status = "filled"
        /\ paper_orders[k].order_side = "sell"
        /\ paper_orders[k].status = "filled"
        /\ cash_writes[j] = 1
        /\ cash_writes[k] = 1
        /\ paper_orders[c].status = "cancelled"
        /\ cash_writes[c] = 0

----------------------------------------------------------------------------
(* EODExecutor: weighted-average cost *)

\* filled_avg_price * quantity summed over the filled buys 1..k of the pair
RECURSIVE BuyCostOf(_, _, _)
BuyCostOf(orders, key, k) ==
    IF k = 0 THEN 0
    ELSE BuyCostOf(orders, key, k - 1) +
         (IF /\ <<orders[k].account_id, orders[k].instrument_id>> = key
             /\ orders[k].status = "filled"
             /\ orders[k].order_side = "buy"
          THEN orders[k].filled_avg_price * orders[k].quantity
          ELSE 0)

\* the pair has a filled sell
Sold(orders, key) ==
    \E id \in DOMAIN orders :
        /\ <<orders[id].account_id, orders[id].instrument_id>> = key
        /\ orders[id].status = "filled"
        /\ orders[id].order_side = "sell"

\* C27: a position built by filled buys alone has avg_entry_price * quantity
\* equal to the sum of fill price * quantity over those buys.  In every pass
\* that can be run, a buy filled into an open position makes avg_entry_price *
\* quantity grow by exactly fill price * quantity, a buy filled into a closed
\* or new position sets avg_entry_price to its fill price, and a sell of less
\* than the quantity held reduces the quantity and leaves avg_entry_price
\* unchanged.
C27_WeightedAverageCost ==
    /\ \A key \in DOMAIN paper_positions :
            ~Sold(paper_orders, key) =>
                RMul(paper_positions[key].avg_entry_price,
                     RInt(paper_positions[key].quantity))
                    = RInt(BuyCostOf(paper_orders, key, Len(paper_orders)))
    /\ \A account_id \in PassAccounts, price_map \in AnyPriceMaps :
        \A r \in {execute_orders(CurrentDb, account_id, price_map, 0, "none")} :
          \A j \in DOMAIN r.summary.fills :
            LET f == r.summary.fills[j]
                o == r.pending_orders[j].row
                key == <<o.account_id, o.instrument_id>>
                held0 == Held(r.before[j].positions, key)
                after == AfterOrder(r, j).positions[key]
            IN  f.success =>
                    IF o.order_side = "buy"
                    THEN /\ after.quantity = held0 + o.quantity
                         /\ IF held0 > 0
                            THEN RMul(after.avg_entry_price, RInt(after.quantity))
                                    = RAdd(RMul(r.before[j].positions[key].avg_entry_price,
                                                RInt(held0)),
                                           RInt(f.fill_price * o.quantity))
                            ELSE after.avg_entry_price = RInt(f.fill_price)
                    ELSE /\ after.quantity = held0 - o.quantity
                         /\ o.quantity < held0 =>
                                after.avg_entry_price
                                    = r.before[j].positions[key].avg_entry_price

\* Two buys of 1 filled at the prices 1 and 2 and then a sell of 1: the position
\* holds 1 at the average entry price 3/2
C27_Witness ==
    \E key \in DOMAIN paper_positions :
        /\ paper_positions[key].quantity = 1
        /\ paper_positions[key].avg_entry_price = Rat(3, 2)
        /\ Sold(paper_orders, key)
        /\ BuyCostOf(paper_orders, key, Len(paper_orders)) = 3

----------------------------------------------------------------------------
(* PaperTradingEngine.create_account *)

\* C26: create_account with a name that already belongs to an account returns
\* a rejection to its caller, it does not raise, and it creates no second
\* account with that name.
C26_DuplicateNameIsReturned ==
    \A name \in CallableNames(paper_accounts), initial_balance \in InitialBalances :
        \A r \in {create_account(paper_accounts, name, initial_balance)} :
            get_paper_account_by_name(paper_accounts, name) # {} =>
                /\ ~r.raised
                /\ r.accounts = paper_accounts

----------------------------------------------------------------------------
(* PaperTradingEngine.create_snapshot *)

\* C25: create_snapshot called a second time for the same account and date,
\* with no change to cash, positions or prices in between, leaves the stored
\* snapshots, daily_pnl and daily_return included, as the first call stored
\* them.
C25_SnapshotIsIdempotent ==
    \A account_id \in DOMAIN paper_accounts, snapshot_date \in Dates :
      \A latest \in PriceMaps(get_paper_positions(paper_positions, account_id)) :
        LET first == create_snapshot(paper_accounts, paper_positions,
                        portfolio_snapshots, account_id, snapshot_date, latest)
            second == create_snapshot(paper_accounts, paper_positions,
                        first, account_id, snapshot_date, latest)
        IN  second = first

----------------------------------------------------------------------------
(* RiskManager (paper/risk.py): the metrics and the rules *)

\* Database.get_portfolio_snapshots: the account's rows, most recent first, at
\* most limit of them
get_portfolio_snapshots(snapshots, account_id, limit) ==
    LET dates == Reversed(sorted({ k[2] : k \in { key \in DOMAIN snapshots :
                                                    key[1] = account_id } }))
        rows == [j \in DOMAIN dates |->
                    [snapshot_date |-> dates[j],
                     total_value |-> snapshots[<<account_id, dates[j]>>].total_value]]
    IN  SubSeq(rows, 1, IF Len(rows) < limit THEN Len(rows) ELSE limit)

\* the price of a position is "pos.get('current_price') or
\* pos['avg_entry_price']"
_calculate_positions_value(positions, account_id) ==
    LET held == get_paper_positions(positions, account_id)
        price(pos) ==
            IF pos.current_price # None /\ pos.current_price # 0
            THEN RInt(pos.current_price) ELSE pos.avg_entry_price
    IN  RSum(held, [i \in held |->
                RMul(RInt(positions[<<account_id, i>>].quantity),
                     price(positions[<<account_id, i>>]))])

\* RiskManager._calculate_drawdown; PeakOver is its "for snap in snapshots",
\* from the k-th row on
RiskManager_calculate_drawdown(snapshots, current_value, initial_value) ==
    IF snapshots = <<>>
    THEN [drawdown |-> RZero,
          drawdown_pct |-> RZero,
          peak_value |-> IF RLess(current_value, initial_value)
                         THEN initial_value ELSE current_value]
    ELSE LET RECURSIVE PeakOver(_, _)
             PeakOver(k, peak) ==
                IF k > Len(snapshots) THEN peak
                ELSE PeakOver(k + 1,
                              IF RLess(peak, snapshots[k].total_value)
                              THEN snapshots[k].total_value ELSE peak)
             seen == PeakOver(1, initial_value)
             peak_value == IF RLess(seen, current_value) THEN current_value ELSE seen
             drawdown == RSub(peak_value, current_value)
         IN  [drawdown |-> drawdown,
              drawdown_pct |-> IF RLess(RZero, peak_value)
                               THEN RDiv(drawdown, peak_value) ELSE RZero,
              peak_value |-> peak_value]

\* RiskManager._calculate_position_risks: the account's open positions come
\* ordered by instrument_id, each joined to its instruments row (symbol AAA for
\* instrument 1, BBB for instrument 2); SortByConcentration is
\* risks.sort(key=concentration_pct, reverse=True), a stable sort
_calculate_position_risks(positions, account_id, total_value) ==
    LET ids == sorted(get_paper_positions(positions, account_id))
        RECURSIVE SortByConcentration(_)
        SortByConcentration(risks) ==
            IF risks = <<>> THEN <<>>
            ELSE LET k == CHOOSE j \in DOMAIN risks :
                        /\ \A i \in DOMAIN risks :
                            ~RLess(risks[j].concentration_pct,
                                   risks[i].concentration_pct)
                        /\ \A i \in 1..(j - 1) :
                            RLess(risks[i].concentration_pct,
                                  risks[j].concentration_pct)
                 IN  <<risks[k]>> \o
                     SortByConcentration(SubSeq(risks, 1, k - 1)
                                         \o SubSeq(risks, k + 1, Len(risks)))
        risk(i) ==
            LET pos == positions[<<account_id, i>>]
                avg_entry == pos.avg_entry_price
                current_price ==
                    IF pos.current_price # None /\ pos.current_price # 0
                    THEN RInt(pos.current_price) ELSE pos.avg_entry_price
                market_value == RMul(RInt(pos.quantity), current_price)
            IN  [instrument_id |-> i,
                 symbol |-> IF i = 1 THEN "AAA" ELSE "BBB",
                 quantity |-> pos.quantity,
                 market_value |-> market_value,
                 concentration_pct |-> IF RLess(RZero, total_value)
                                       THEN RDiv(market_value, total_value)
                                       ELSE RZero,
                 unrealized_pnl |-> RMul(RSub(current_price, avg_entry),
                                         RInt(pos.quantity)),
                 unrealized_pnl_pct |-> IF RLess(RZero, avg_entry)
                                        THEN RDiv(RSub(current_price, avg_entry),
                                                  avg_entry)
                                        ELSE RZero]
    IN  SortByConcentration([j \in DOMAIN ids |-> risk(ids[j])])

\* RiskManager._check_violations stopping at the first rule that is broken
_check_violations_first_only(metrics, limits) ==
    IF RLess(limits.max_total_exposure, metrics.total_exposure)
    THEN <<[rule |-> "max_total_exposure", severity |-> "warning",
                    current_value |-> metrics.total_exposure,
                    limit_value |-> limits.max_total_exposure]>>
    ELSE IF RLess(metrics.cash_reserve_pct, limits.min_cash_reserve)
    THEN <<[rule |-> "min_cash_reserve", severity |-> "warning",
                    current_value |-> metrics.cash_reserve_pct,
                    limit_value |-> limits.min_cash_reserve]>>
    ELSE IF RLess(limits.max_drawdown_pct, metrics.current_drawdown_pct)
    THEN <<[rule |-> "max_drawdown", severity |-> "critical",
                    current_value |-> metrics.current_drawdown_pct,
                    limit_value |-> limits.max_drawdown_pct]>>
    ELSE IF metrics.losing_streak >= limits.max_losing_streak
    THEN <<[rule |-> "max_losing_streak", severity |-> "warning",
                    current_value |-> RInt(metrics.losing_streak),
                    limit_value |-> RInt(limits.max_losing_streak)]>>
    ELSE LET offenders ==
                SelectSeq(metrics.position_risks,
                    LAMBDA pos_risk : RLess(limits.max_position_concentration,
                                            pos_risk.concentration_pct))
         IN  [j \in DOMAIN offenders |->
                [rule |-> "max_position_concentration", severity |-> "warning",
                    current_value |-> offenders[j].concentration_pct,
                    limit_value |-> limits.max_position_concentration]]

\* RiskManager._check_violations
_check_violations(metrics, limits) ==
    LET exposure ==
            IF RLess(limits.max_total_exposure, metrics.total_exposure)
            THEN <<[rule |-> "max_total_exposure", severity |-> "warning",
                    current_value |-> metrics.total_exposure,
                    limit_value |-> limits.max_total_exposure]>>
            ELSE <<>>
        reserve ==
            IF RLess(metrics.cash_reserve_pct, limits.min_cash_reserve)
            THEN <<[rule |-> "min_cash_reserve", severity |-> "warning",
                    current_value |-> metrics.cash_reserve_pct,
                    limit_value |-> limits.min_cash_reserve]>>
            ELSE <<>>
        drawdown ==
            IF RLess(limits.max_drawdown_pct, metrics.current_drawdown_pct)
            THEN <<[rule |-> "max_drawdown", severity |-> "critical",
                    current_value |-> metrics.current_drawdown_pct,
                    limit_value |-> limits.max_drawdown_pct]>>
            ELSE <<>>
        streak ==
            IF metrics.losing_streak >= limits.max_losing_streak
            THEN <<[rule |-> "max_losing_streak", severity |-> "warning",
                    current_value |-> RInt(metrics.losing_streak),
                    limit_value |-> RInt(limits.max_losing_streak)]>>
            ELSE <<>>
        offenders ==
            SelectSeq(metrics.position_risks,
                LAMBDA pos_risk : RLess(limits.max_position_concentration,
                                        pos_risk.concentration_pct))
        concentration ==
            [j \in DOMAIN offenders |->
                [rule |-> "max_position_concentration", severity |-> "warning",
                    current_value |-> offenders[j].concentration_pct,
                    limit_value |-> limits.max_position_concentration]]
    IN  exposure \o reserve \o drawdown \o streak \o concentration

\* compute_risk_metrics taking the cash reserve as a share of the initial balance
compute_risk_metrics_reserve_of_initial(accounts, orders, positions, snapshots, limits, account_id) ==
    IF ~has_paper_account(accounts, account_id)
    THEN [raised |-> TRUE]
    ELSE
    LET account == accounts[account_id]
        cash_balance == RInt(account.cash_balance)
        positions_value == _calculate_positions_value(positions, account_id)
        total_value == RAdd(cash_balance, positions_value)
        drawdown_info ==
            RiskManager_calculate_drawdown(
                get_portfolio_snapshots(snapshots, account_id, 100),
                total_value, RInt(account.initial_balance))
        metrics ==
            [account_id |-> account_id,
             total_value |-> total_value,
             cash_balance |-> cash_balance,
             positions_value |-> positions_value,
             total_exposure |-> IF RLess(RZero, total_value)
                                THEN RDiv(positions_value, total_value) ELSE RZero,
             cash_reserve_pct |-> IF account.initial_balance > 0
                                  THEN RDiv(cash_balance,
                                            RInt(account.initial_balance))
                                  ELSE ROne,
             current_drawdown |-> drawdown_info.drawdown,
             current_drawdown_pct |-> drawdown_info.drawdown_pct,
             peak_value |-> drawdown_info.peak_value,
             losing_streak |-> _calculate_losing_streak(orders, positions, account_id),
             position_risks |-> _calculate_position_risks(positions, account_id,
                                                           total_value)]
        violations == _check_violations(metrics, limits)
    IN  [raised |-> FALSE,
         metrics |-> metrics,
         violations |-> violations,
         is_compliant |-> Len(violations) = 0]

\* RiskManager.compute_risk_metrics: whether it raised (ValueError, account not
\* found) and the RiskMetrics it returned otherwise
compute_risk_metrics(accounts, orders, positions, snapshots, limits, account_id) ==
    IF ~has_paper_account(accounts, account_id)
    THEN [raised |-> TRUE]
    ELSE
    LET account == accounts[account_id]
        cash_balance == RInt(account.cash_balance)
        positions_value == _calculate_positions_value(positions, account_id)
        total_value == RAdd(cash_balance, positions_value)
        drawdown_info ==
            RiskManager_calculate_drawdown(
                get_portfolio_snapshots(snapshots, account_id, 100),
                total_value, RInt(account.initial_balance))
        metrics ==
            [account_id |-> account_id,
             total_value |-> total_value,
             cash_balance |-> cash_balance,
             positions_value |-> positions_value,
             total_exposure |-> IF RLess(RZero, total_value)
                                THEN RDiv(positions_value, total_value) ELSE RZero,
             cash_reserve_pct |-> IF RLess(RZero, total_value)
                                  THEN RDiv(cash_balance, total_value) ELSE ROne,
             current_drawdown |-> drawdown_info.drawdown,
             current_drawdown_pct |-> drawdown_info.drawdown_pct,
             peak_value |-> drawdown_info.peak_value,
             losing_streak |-> _calculate_losing_streak(orders, positions, account_id),
             position_risks |-> _calculate_position_risks(positions, account_id,
                                                           total_value)]
        violations == _check_violations(metrics, limits)
    IN  [raised |-> FALSE,
         metrics |-> metrics,
         violations |-> violations,
         is_compliant |-> Len(violations) = 0]

\* check_order_risk refusing an order that breaks a limit
check_order_risk_blocking(accounts, positions, limits, account_id, symbol, side, quantity, estimated_price) ==
    IF side = "sell" THEN [allowed |-> TRUE, warnings |-> <<>>]
    ELSE IF ~has_paper_account(accounts, account_id)
    THEN [allowed |-> FALSE, warnings |-> <<"Account not found">>]
    ELSE
    LET cash_balance == accounts[account_id].cash_balance
        positions_value == _calculate_positions_value(positions, account_id)
        order_value == quantity * estimated_price
        new_cash == RInt(cash_balance - order_value)
        new_positions_value == RAdd(positions_value, RInt(order_value))
        new_total == RAdd(new_cash, new_positions_value)
        new_exposure == IF RLess(RZero, new_total)
                        THEN RDiv(new_positions_value, new_total) ELSE RZero
        new_cash_reserve == IF RLess(RZero, new_total)
                            THEN RDiv(new_cash, new_total) ELSE RZero
        matching == { i \in get_paper_positions(positions, account_id) :
                        (IF i = 1 THEN "AAA" ELSE "BBB") = symbol }
        existing_position_value ==
            IF matching = {} THEN RZero
            ELSE LET pos == positions[<<account_id,
                                CHOOSE i \in matching : \A j \in matching : i <= j>>]
                 IN  RMul(RInt(pos.quantity),
                          IF pos.current_price # None /\ pos.current_price # 0
                          THEN RInt(pos.current_price) ELSE pos.avg_entry_price)
        new_position_value == RAdd(existing_position_value, RInt(order_value))
        new_concentration == IF RLess(RZero, new_total)
                             THEN RDiv(new_position_value, new_total) ELSE RZero
    IN  IF order_value > cash_balance
        THEN [allowed |-> FALSE, warnings |-> <<"Insufficient cash">>]
        ELSE [allowed |->
                /\ ~RLess(limits.max_total_exposure, new_exposure)
                /\ ~RLess(new_cash_reserve, limits.min_cash_reserve)
                /\ ~RLess(limits.max_position_concentration, new_concentration),
              warnings |->
                (IF RLess(limits.max_total_exposure, new_exposure)
                 THEN <<"exposure">> ELSE <<>>)
                \o (IF RLess(new_cash_reserve, limits.min_cash_reserve)
                    THEN <<"cash reserve">> ELSE <<>>)
                \o (IF RLess(limits.max_position_concentration, new_concentration)
                    THEN <<"concentration">> ELSE <<>>)]

\* RiskManager.check_order_risk: (is_allowed, warnings); a warning is modelled by
\* the rule it names
check_order_risk(accounts, positions, limits, account_id, symbol, side, quantity, estimated_price) ==
    IF side = "sell" THEN [allowed |-> TRUE, warnings |-> <<>>]
    ELSE IF ~has_paper_account(accounts, account_id)
    THEN [allowed |-> FALSE, warnings |-> <<"Account not found">>]
    ELSE
    LET cash_balance == accounts[account_id].cash_balance
        positions_value == _calculate_positions_value(positions, account_id)
        order_value == quantity * estimated_price
        new_cash == RInt(cash_balance - order_value)
        new_positions_value == RAdd(positions_value, RInt(order_value))
        new_total == RAdd(new_cash, new_positions_value)
        new_exposure == IF RLess(RZero, new_total)
                        THEN RDiv(new_positions_value, new_total) ELSE RZero
        new_cash_reserve == IF RLess(RZero, new_total)
                            THEN RDiv(new_cash, new_total) ELSE RZero
        matching == { i \in get_paper_positions(positions, account_id) :
                        (IF i = 1 THEN "AAA" ELSE "BBB") = symbol }
        existing_position_value ==
            IF matching = {} THEN RZero
            ELSE LET pos == positions[<<account_id,
                                CHOOSE i \in matching : \A j \in matching : i <= j>>]
                 IN  RMul(RInt(pos.quantity),
                          IF pos.current_price # None /\ pos.current_price # 0
                          THEN RInt(pos.current_price) ELSE pos.avg_entry_price)
        new_position_value == RAdd(existing_position_value, RInt(order_value))
        new_concentration == IF RLess(RZero, new_total)
                             THEN RDiv(new_position_value, new_total) ELSE RZero
    IN  IF order_value > cash_balance
        THEN [allowed |-> FALSE, warnings |-> <<"Insufficient cash">>]
        ELSE [allowed |-> TRUE,
              warnings |->
                (IF RLess(limits.max_total_exposure, new_exposure)
                 THEN <<"exposure">> ELSE <<>>)
                \o (IF RLess(new_cash_reserve, limits.min_cash_reserve)
                    THEN <<"cash reserve">> ELSE <<>>)
                \o (IF RLess(limits.max_position_concentration, new_concentration)
                    THEN <<"concentration">> ELSE <<>>)]

----------------------------------------------------------------------------
(* PortfolioAnalyzer (paper/metrics.py): the equity curve and its drawdown *)

\* PortfolioAnalyzer._build_equity_curve over the rows oldest first; CurveFrom
\* is its "for snap in snapshots", from the k-th row on
_build_equity_curve(snapshots, initial_value) ==
    LET RECURSIVE CurveFrom(_, _)
        CurveFrom(k, peak_value) ==
            IF k > Len(snapshots) THEN <<>>
            ELSE
            LET total_value == snapshots[k].total_value
                peak == IF RLess(peak_value, total_value)
                        THEN total_value ELSE peak_value
                drawdown == RSub(peak, total_value)
            IN  <<[date |-> snapshots[k].snapshot_date,
                   total_value |-> total_value,
                   cumulative_return |-> IF RLess(RZero, initial_value)
                                         THEN RDiv(RSub(total_value, initial_value),
                                                   initial_value)
                                         ELSE RZero,
                   drawdown |-> drawdown,
                   drawdown_pct |-> IF RLess(RZero, peak)
                                    THEN RDiv(drawdown, peak) ELSE RZero]>>
                \o CurveFrom(k + 1, peak)
    IN  CurveFrom(1, initial_value)

\* PortfolioAnalyzer._calculate_drawdown taking the newest of the deepest points
PortfolioAnalyzer_calculate_drawdown_latest(curve) ==
    LET deepest == { k \in DOMAIN curve :
                        /\ RLess(RZero, curve[k].drawdown)
                        /\ \A j \in DOMAIN curve :
                            ~RLess(curve[k].drawdown, curve[j].drawdown) }
        top == { k \in DOMAIN curve :
                    \A j \in DOMAIN curve :
                        ~RLess(curve[k].total_value, curve[j].total_value) }
        first_top == CHOOSE k \in top : \A j \in top : k <= j
    IN  IF curve = <<>>
        THEN [max_drawdown |-> RZero, max_drawdown_pct |-> RZero,
              max_drawdown_date |-> None, peak_value |-> RZero, peak_date |-> None]
        ELSE [max_drawdown |-> IF deepest = {} THEN RZero
                               ELSE curve[MaxOf(deepest)].drawdown,
              max_drawdown_pct |-> IF deepest = {} THEN RZero
                                   ELSE curve[MaxOf(deepest)].drawdown_pct,
              max_drawdown_date |-> IF deepest = {} THEN None
                                    ELSE curve[MaxOf(deepest)].date,
              peak_value |-> curve[first_top].total_value,
              peak_date |-> curve[first_top].date]

\* PortfolioAnalyzer._calculate_drawdown; DrawdownFrom is its "for point in
\* equity_curve", from the k-th point on
PortfolioAnalyzer_calculate_drawdown(curve) ==
    LET RECURSIVE DrawdownFrom(_, _)
        DrawdownFrom(k, info) ==
            IF k > Len(curve) THEN info
            ELSE
            LET point == curve[k]
                peaked == IF RLess(info.peak_value, point.total_value)
                          THEN [info EXCEPT !.peak_value = point.total_value,
                                            !.peak_date = point.date]
                          ELSE info
            IN  DrawdownFrom(k + 1,
                    IF RLess(peaked.max_drawdown, point.drawdown)
                    THEN [peaked EXCEPT !.max_drawdown = point.drawdown,
                                        !.max_drawdown_pct = point.drawdown_pct,
                                        !.max_drawdown_date = point.date]
                    ELSE peaked)
    IN  IF curve = <<>>
        THEN [max_drawdown |-> RZero, max_drawdown_pct |-> RZero,
              max_drawdown_date |-> None, peak_value |-> RZero, peak_date |-> None]
        ELSE DrawdownFrom(1,
                [max_drawdown |-> RZero, max_drawdown_pct |-> RZero,
                 max_drawdown_date |-> None,
                 peak_value |-> curve[1].total_value,
                 peak_date |-> curve[1].date])

\* PortfolioAnalyzer.get_equity_curve: whether it raised (ValueError, account
\* not found) and the curve it returned otherwise
get_equity_curve(accounts, snapshots, account_id, limit) ==
    IF ~has_paper_account(accounts, account_id)
    THEN [raised |-> TRUE]
    ELSE LET rows == Reversed(get_portfolio_snapshots(snapshots, account_id, limit))
         IN  [raised |-> FALSE,
              curve |-> IF rows = <<>> THEN <<>>
                        ELSE _build_equity_curve(rows,
                                RInt(accounts[account_id].initial_balance))]

\* PortfolioAnalyzer.compute_metrics: whether it raised and, of the
\* PortfolioMetrics it returned otherwise, the fields taken from the curve
compute_metrics(accounts, snapshots, account_id) ==
    IF ~has_paper_account(accounts, account_id)
    THEN [raised |-> TRUE]
    ELSE
    LET rows == Reversed(get_portfolio_snapshots(snapshots, account_id, 500))
        initial_value == RInt(accounts[account_id].initial_balance)
        drawdown_info ==
            PortfolioAnalyzer_calculate_drawdown(_build_equity_curve(rows, initial_value))
    IN  IF rows = <<>>
        THEN \* _empty_metrics
             [raised |-> FALSE,
              max_drawdown |-> RZero, max_drawdown_pct |-> RZero,
              max_drawdown_date |-> None,
              peak_value |-> initial_value, peak_date |-> None,
              trading_days |-> 0]
        ELSE [raised |-> FALSE,
              max_drawdown |-> drawdown_info.max_drawdown,
              max_drawdown_pct |-> drawdown_info.max_drawdown_pct,
              max_drawdown_date |-> drawdown_info.max_drawdown_date,
              peak_value |-> drawdown_info.peak_value,
              peak_date |-> drawdown_info.peak_date,
              trading_days |-> Len(rows)]

----------------------------------------------------------------------------
(* RiskManager and PortfolioAnalyzer over a database that trading has filled *)

\* The tables as trading can leave them.  AccountChoices: (initial_balance,
\* cash_balance) of the account, the last one has bought a holding of 30 with
\* 130.  RowChoices: (quantity, avg_entry_price, current_price) of the account's
\* position row for the instrument, <<>> when it has none: closed, held at a
\* loss, held at cost.  OrderChoices: none, or a buy filled at 2 and a sell
\* filled at 1.  CurveChoices: the total_value of the account's snapshots, one
\* per date, oldest first; SnapshotsOf: the rows create_snapshot stored for them
\* on the dates 1..Len(vals).  Traded: an account that never traded has its
\* initial balance, no order and no position row; an account without cash
\* holds a position; a sell was filled only from a position, and a closed
\* position was sold.
InitRisk ==
    LET AccountChoices == {<<4, 0>>, <<4, 2>>, <<4, 4>>, <<130, 100>>}
        RowChoices(instrument_id) ==
            IF instrument_id = 1
            THEN {<<>>, <<0, 0, 1>>, <<1, 2, 1>>, <<3, 1, 1>>,
                  <<3, 10, 10>>, <<10, 10, 10>>}
            ELSE {<<>>, <<3, 1, 1>>}
        PositionsOf(r1, r2) ==
            LET first == IF r1 = <<>> THEN <<>>
                         ELSE upsert_paper_position(<<>>, 1, 1, r1[1], RInt(r1[2]),
                                                    r1[3], RZero)
            IN  IF r2 = <<>> THEN first
                ELSE upsert_paper_position(first, 1, 2, r2[1], RInt(r2[2]), r2[3],
                                           RZero)
        CurveChoices == UNION { [1..n -> {2, 6}] : n \in 0..MaxCurve }
        SnapshotsOf(vals) ==
            [k \in { <<1, d>> : d \in DOMAIN vals } |->
                LET d == k[2] IN
                [cash_balance |-> vals[d],
                 positions_value |-> RZero,
                 total_value |-> RInt(vals[d]),
                 daily_pnl |-> IF d = 1 THEN NoneRat
                               ELSE RInt(vals[d] - vals[d - 1]),
                 daily_return |-> IF d = 1 THEN NoneRat
                                  ELSE RDiv(RInt(vals[d] - vals[d - 1]),
                                            RInt(vals[d - 1])),
                 positions_snapshot |-> <<>>]]
        FilledOrder(order_side, fill_price) ==
            [account_id |-> 1, instrument_id |-> 1, order_side |-> order_side,
             quantity |-> 1, order_type |-> "market", limit_price |-> None,
             status |-> "filled", filled_quantity |-> 1,
             filled_avg_price |-> fill_price]
        OrderChoices == {<<>>, <<FilledOrder("buy", 2), FilledOrder("sell", 1)>>}
        Traded(a, orders, r1, r2) ==
            /\ (r1 = <<>> /\ r2 = <<>>) => (a[2] = a[1] /\ orders = <<>>)
            /\ a[2] = 0 => ((r1 # <<>> /\ r1[1] > 0) \/ r2 # <<>>)
            /\ orders # <<>> => r1 # <<>>
            /\ (r1 # <<>> /\ r1[1] = 0) => orders # <<>>
    IN
    /\ \E a \in AccountChoices, orders \in OrderChoices,
          r1 \in RowChoices(1), r2 \in RowChoices(2) :
        /\ Traded(a, orders, r1, r2)
        /\ paper_accounts = <<[name |-> "alpha", initial_balance |-> a[1],
                                cash_balance |-> a[2]]>>
        /\ paper_orders = orders
        /\ paper_positions = PositionsOf(r1, r2)
    /\ \E vals \in CurveChoices : portfolio_snapshots = SnapshotsOf(vals)
    /\ expected_realized = [k \in AccountIds \X Instruments |-> RZero]
    /\ cash_writes = [id \in DOMAIN paper_orders |-> 1]
    /\ faults = 0
    /\ sell_pnl = [id \in DOMAIN paper_orders |-> NoneRat]
    /\ pc = "idle"
    /\ run_config = NoConfig
    /\ prices_by_instrument = <<>>
    /\ day_idx = 0
    /\ signals = <<>>
    /\ signal_idx = 0
    /\ run_cash = RZero
    /\ run_positions = <<>>
    /\ run_trades = <<>>
    /\ equity_curve = <<>>
    /\ run_result = NoResult
    /\ run_error = ""
    /\ backtest_run = NoRun
    /\ backtest_trades = <<>>
    /\ backtest_metrics = <<>>
    /\ opened = 0
    /\ book_at_open = [cash |-> RZero, positions |-> <<>>, trades |-> <<>>]
    /\ risk_limits = RiskLimits
    /\ last_call = [op |-> "none"]

\* RiskManager.set_limits, called with the defaults, with a cash reserve of one
\* half and nothing else in reach, or with tight limits
SetLimits ==
    /\ \E limits \in
            {RiskLimits,
             [max_total_exposure |-> Rat(19, 20),
              max_position_concentration |-> ROne,
              max_drawdown_pct |-> Rat(1, 5), max_losing_streak |-> 5,
              min_cash_reserve |-> Half],
             [max_total_exposure |-> Rat(1, 4),
              max_position_concentration |-> Rat(1, 10),
              max_drawdown_pct |-> Rat(1, 10), max_losing_streak |-> 1,
              min_cash_reserve |-> Half]} :
        /\ risk_limits' = limits
        /\ last_call' = [op |-> "set_limits", limits |-> limits]
    /\ UNCHANGED paper_vars
    /\ UNCHANGED backtest_vars

ComputeRiskMetrics ==
    /\ \E account_id \in AccountIds :
        last_call' =
            [op |-> "compute_risk_metrics",
             account_id |-> account_id,
             result |-> compute_risk_metrics(paper_accounts, paper_orders,
                            paper_positions, portfolio_snapshots, risk_limits,
                            account_id)]
    /\ UNCHANGED risk_limits
    /\ UNCHANGED paper_vars
    /\ UNCHANGED backtest_vars

\* RiskManager.check_order_risk, called with (account_id, symbol, side,
\* (quantity, estimated_price))
CheckOrderRisk ==
    /\ \E call \in
            ({1} \X {"AAA", "BBB"} \X {"buy"} \X {<<1, 1>>, <<3, 1>>, <<3, 10>>})
            \cup {<<1, "AAA", "sell", <<3, 10>>>>, <<2, "AAA", "sell", <<1, 1>>>>,
                   <<2, "AAA", "buy", <<1, 1>>>>} :
        last_call' =
            [op |-> "check_order_risk",
             account_id |-> call[1],
             symbol |-> call[2],
             side |-> call[3],
             quantity |-> call[4][1],
             estimated_price |-> call[4][2],
             result |-> check_order_risk(paper_accounts, paper_positions,
                            risk_limits, call[1], call[2], call[3], call[4][1],
                            call[4][2])]
    /\ UNCHANGED risk_limits
    /\ UNCHANGED paper_vars
    /\ UNCHANGED backtest_vars

GetEquityCurve ==
    /\ \E account_id \in AccountIds :
        last_call' =
            [op |-> "get_equity_curve",
             account_id |-> account_id,
             result |-> get_equity_curve(paper_accounts, portfolio_snapshots,
                                         account_id, 365)]
    /\ UNCHANGED risk_limits
    /\ UNCHANGED paper_vars
    /\ UNCHANGED backtest_vars

ComputeMetrics ==
    /\ \E account_id \in AccountIds :
        last_call' =
            [op |-> "compute_metrics",
             account_id |-> account_id,
             result |-> compute_metrics(paper_accounts, portfolio_snapshots,
                                        account_id)]
    /\ UNCHANGED risk_limits
    /\ UNCHANGED paper_vars
    /\ UNCHANGED backtest_vars

NextRisk ==
    \/ SetLimits
    \/ ComputeRiskMetrics
    \/ CheckOrderRisk
    \/ GetEquityCurve
    \/ ComputeMetrics

SpecRisk == InitRisk /\ [][NextRisk]_vars

----------------------------------------------------------------------------
(* RiskManager: the properties *)

\* C21: every rule is evaluated on its own.  The violations of a RiskMetrics
\* hold one max_total_exposure warning if and only if exposure >
\* max_total_exposure, one min_cash_reserve warning iff cash_reserve_pct <
\* min_cash_reserve, one max_drawdown critical iff drawdown_pct >
\* max_drawdown_pct, one max_losing_streak warning iff losing_streak >=
\* max_losing_streak, one max_position_concentration warning for each open
\* position whose concentration > max_position_concentration, and nothing
\* else; is_compliant is true iff there is no violation.
C21_RulesEvaluatedIndependently ==
    (last_call.op = "compute_risk_metrics" /\ ~last_call.result.raised) =>
        LET metrics == last_call.result.metrics
            violations == last_call.result.violations
            risks == metrics.position_risks
            Flag(b) == IF b THEN 1 ELSE 0
            CountOf(found, rule) ==
                Cardinality({ j \in DOMAIN found : found[j].rule = rule })
        IN  /\ CountOf(violations, "max_total_exposure") =
                 Flag(RLess(risk_limits.max_total_exposure, metrics.total_exposure))
            /\ CountOf(violations, "min_cash_reserve") =
                 Flag(RLess(metrics.cash_reserve_pct, risk_limits.min_cash_reserve))
            /\ CountOf(violations, "max_drawdown") =
                 Flag(RLess(risk_limits.max_drawdown_pct,
                            metrics.current_drawdown_pct))
            /\ CountOf(violations, "max_losing_streak") =
                 Flag(metrics.losing_streak >= risk_limits.max_losing_streak)
            /\ { risks[k].instrument_id : k \in DOMAIN risks } =
                 get_paper_positions(paper_positions, last_call.account_id)
            /\ Len(risks) = Cardinality(get_paper_positions(paper_positions,
                                                            last_call.account_id))
            /\ \A c \in { risks[k].concentration_pct : k \in DOMAIN risks } :
                 Cardinality({ j \in DOMAIN violations :
                        /\ violations[j].rule = "max_position_concentration"
                        /\ violations[j].current_value = c }) =
                 IF RLess(risk_limits.max_position_concentration, c)
                 THEN Cardinality({ k \in DOMAIN risks :
                                        risks[k].concentration_pct = c })
                 ELSE 0
            /\ \A j \in DOMAIN violations :
                 /\ violations[j].rule \in
                        {"max_total_exposure", "min_cash_reserve", "max_drawdown",
                         "max_losing_streak", "max_position_concentration"}
                 /\ violations[j].severity =
                        IF violations[j].rule = "max_drawdown"
                        THEN "critical" ELSE "warning"
                 /\ violations[j].rule = "max_position_concentration" =>
                        \E k \in DOMAIN risks :
                            risks[k].concentration_pct = violations[j].current_value
            /\ last_call.result.is_compliant <=> violations = <<>>

\* All five rules broken at once, two positions over the concentration limit:
\* six violations
C21_Witness ==
    /\ (last_call.op = "compute_risk_metrics" /\ ~last_call.result.raised)
    /\ Len(last_call.result.violations) = 6
    /\ \A rule \in {"max_total_exposure", "min_cash_reserve", "max_drawdown",
                    "max_losing_streak"} :
            Cardinality({ j \in DOMAIN last_call.result.violations :
                            last_call.result.violations[j].rule = rule }) = 1
    /\ Cardinality({ j \in DOMAIN last_call.result.violations :
                        last_call.result.violations[j].rule
                            = "max_position_concentration" }) = 2
    /\ ~last_call.result.is_compliant

\* no rule other than min_cash_reserve is broken by the metrics
OthersUnbreached(metrics) ==
    /\ ~RLess(risk_limits.max_total_exposure, metrics.total_exposure)
    /\ ~RLess(risk_limits.max_drawdown_pct, metrics.current_drawdown_pct)
    /\ metrics.losing_streak < risk_limits.max_losing_streak
    /\ \A k \in DOMAIN metrics.position_risks :
            ~RLess(risk_limits.max_position_concentration,
                   metrics.position_risks[k].concentration_pct)

\* the account holds cash of 100 and a single open position worth 30 (amounts
\* in thousands), min_cash_reserve is 0.5 and no other limit is breached
ReserveScenario ==
    /\ (last_call.op = "compute_risk_metrics" /\ ~last_call.result.raised)
    /\ paper_accounts[last_call.account_id].cash_balance = 100
    /\ Cardinality(get_paper_positions(paper_positions, last_call.account_id)) = 1
    /\ last_call.result.metrics.positions_value = RInt(30)
    /\ risk_limits.min_cash_reserve = Half
    /\ OthersUnbreached(last_call.result.metrics)

\* C22 as first stated: in that scenario compute_risk_metrics returns exactly
\* one violation, for rule min_cash_reserve.
C22_ScenarioBreaksCashReserve ==
    ReserveScenario =>
        /\ Len(last_call.result.violations) = 1
        /\ last_call.result.violations[1].rule = "min_cash_reserve"

\* C22: in that scenario compute_risk_metrics returns no violation, because
\* cash_reserve_pct = cash / total value = 100/130 is not below 0.5.  With no
\* other limit breached it returns exactly one violation, for min_cash_reserve,
\* exactly when cash / (cash + positions value) < min_cash_reserve, and none
\* otherwise.
C22_CashReserveIsShareOfTotal ==
    /\ ReserveScenario =>
            /\ last_call.result.metrics.cash_reserve_pct = Rat(10, 13)
            /\ last_call.result.violations = <<>>
            /\ last_call.result.is_compliant
    /\ (/\ last_call.op = "compute_risk_metrics"
        /\ ~last_call.result.raised
        /\ OthersUnbreached(last_call.result.metrics)) =>
            LET metrics == last_call.result.metrics
                cash == RInt(paper_accounts[last_call.account_id].cash_balance)
                total == RAdd(cash, metrics.positions_value)
            IN  IF RLess(RZero, total)
                   /\ RLess(RDiv(cash, total), risk_limits.min_cash_reserve)
                THEN /\ Len(last_call.result.violations) = 1
                     /\ last_call.result.violations[1].rule = "min_cash_reserve"
                     /\ last_call.result.violations[1].current_value
                            = RDiv(cash, total)
                ELSE last_call.result.violations = <<>>

\* The scenario evaluated: cash 100, one position worth 30, min_cash_reserve
\* 0.5, and the account is compliant
C22_Witness ==
    /\ ReserveScenario
    /\ last_call.result.is_compliant

\* C23: check_order_risk returns allowed with no warnings for every sell.  For
\* a buy on an existing account it returns not allowed if and only if quantity
\* * estimated_price > cash_balance; in every other case it returns allowed,
\* with one warning for each of the exposure, cash-reserve and concentration
\* limits that the account would break after the fill, and no other warning.
\* check_order_risk writes no state.
C23_OnlyCashBlocksAnOrder ==
    /\ [](last_call.op = "check_order_risk" =>
            LET call == last_call
                result == last_call.result
                order_value == call.quantity * call.estimated_price
            IN  IF call.side = "sell"
                THEN result = [allowed |-> TRUE, warnings |-> <<>>]
                ELSE has_paper_account(paper_accounts, call.account_id) =>
                    LET cash == paper_accounts[call.account_id].cash_balance
                        held == get_paper_positions(paper_positions, call.account_id)
                        price(pos) ==
                            IF pos.current_price # None /\ pos.current_price # 0
                            THEN RInt(pos.current_price) ELSE pos.avg_entry_price
                        value == [i \in held |->
                            RMul(RInt(paper_positions[<<call.account_id, i>>].quantity),
                                 price(paper_positions[<<call.account_id, i>>]))]
                        total == RAdd(RInt(cash), RSum(held, value))
                        after_positions == RAdd(RSum(held, value), RInt(order_value))
                        after_cash == RInt(cash - order_value)
                        after_position ==
                            RAdd(RInt(order_value),
                                 RSum({ i \in held : (IF i = 1 THEN "AAA" ELSE "BBB")
                                                        = call.symbol }, value))
                        Share(x) == IF RLess(RZero, total) THEN RDiv(x, total)
                                    ELSE RZero
                    IN  /\ result.allowed <=> ~(order_value > cash)
                        /\ ~result.allowed =>
                                result.warnings = <<"Insufficient cash">>
                        /\ result.allowed =>
                            /\ { result.warnings[j] : j \in DOMAIN result.warnings } =
                                 { w \in {"exposure", "cash reserve", "concentration"} :
                                    \/ /\ w = "exposure"
                                       /\ RLess(risk_limits.max_total_exposure,
                                                Share(after_positions))
                                    \/ /\ w = "cash reserve"
                                       /\ RLess(Share(after_cash),
                                                risk_limits.min_cash_reserve)
                                    \/ /\ w = "concentration"
                                       /\ RLess(risk_limits.max_position_concentration,
                                                Share(after_position)) }
                            /\ \A j, k \in DOMAIN result.warnings :
                                 j # k => result.warnings[j] # result.warnings[k])
    /\ [][last_call'.op = "check_order_risk" =>
            /\ paper_accounts' = paper_accounts
            /\ paper_orders' = paper_orders
            /\ paper_positions' = paper_positions
            /\ portfolio_snapshots' = portfolio_snapshots
            /\ risk_limits' = risk_limits]_vars

\* A buy that breaks the exposure, the cash-reserve and the concentration limit
\* and is allowed, with the three warnings
C23_Witness ==
    /\ last_call.op = "check_order_risk"
    /\ last_call.side = "buy"
    /\ last_call.result.allowed
    /\ Len(last_call.result.warnings) = 3

\* C24: in every RiskMetrics, for every snapshot history including an empty
\* one, peak_value is at least every total_value observed (the account's
\* snapshots and the current total value), current_drawdown = peak_value -
\* total_value and current_drawdown_pct = current_drawdown / peak_value; an
\* account whose current value is below its reported peak_value never reports a
\* drawdown of 0.
C24_DrawdownIsPeakLessValue ==
    (last_call.op = "compute_risk_metrics" /\ ~last_call.result.raised) =>
        LET metrics == last_call.result.metrics
            rows == get_portfolio_snapshots(portfolio_snapshots,
                                            last_call.account_id, MaxCurve + 1)
        IN  /\ \A k \in DOMAIN rows :
                    ~RLess(metrics.peak_value, rows[k].total_value)
            /\ ~RLess(metrics.peak_value, metrics.total_value)
            /\ metrics.current_drawdown =
                    RSub(metrics.peak_value, metrics.total_value)
            /\ RLess(RZero, metrics.peak_value) =>
                    metrics.current_drawdown_pct =
                        RDiv(metrics.current_drawdown, metrics.peak_value)
            /\ RLess(metrics.total_value, metrics.peak_value) =>
                    metrics.current_drawdown # RZero

----------------------------------------------------------------------------
(* PortfolioAnalyzer: the properties *)

\* the curve get_equity_curve returned has one point per snapshot of the
\* account in chronological order, and each point's drawdown is the running
\* peak less the point's total_value: at least 0, and 0 at every new peak
CurveFollowsSnapshots ==
    (last_call.op = "get_equity_curve" /\ ~last_call.result.raised) =>
        LET curve == last_call.result.curve
            rows == Reversed(get_portfolio_snapshots(portfolio_snapshots,
                        last_call.account_id, MaxCurve + 1))
            initial_value ==
                RInt(paper_accounts[last_call.account_id].initial_balance)
            \* the maximum of the initial balance and every total_value of
            \* rows 1..k
            RECURSIVE RunningPeak(_)
            RunningPeak(k) ==
                IF k = 0 THEN initial_value
                ELSE IF RLess(RunningPeak(k - 1), rows[k].total_value)
                     THEN rows[k].total_value
                     ELSE RunningPeak(k - 1)
        IN  /\ Len(curve) = Len(rows)
            /\ \A k \in DOMAIN curve :
                /\ curve[k].date = rows[k].snapshot_date
                /\ curve[k].total_value = rows[k].total_value
                /\ k > 1 => curve[k - 1].date < curve[k].date
                /\ curve[k].drawdown =
                        RSub(RunningPeak(k), curve[k].total_value)
                /\ ~RLess(curve[k].drawdown, RZero)
                /\ RLess(RunningPeak(k - 1), curve[k].total_value)
                        => curve[k].drawdown = RZero

\* the curve compute_metrics builds for the account
CurveOf(account_id) ==
    _build_equity_curve(
        Reversed(get_portfolio_snapshots(portfolio_snapshots, account_id,
                                         MaxCurve + 1)),
        RInt(paper_accounts[account_id].initial_balance))

\* max_drawdown is the largest of the point drawdowns, 0 for an empty curve
MaxDrawdownIsLargest ==
    (last_call.op = "compute_metrics" /\ ~last_call.result.raised) =>
        LET curve == CurveOf(last_call.account_id) IN
        /\ \A k \in DOMAIN curve :
                ~RLess(last_call.result.max_drawdown, curve[k].drawdown)
        /\ \/ \E k \in DOMAIN curve :
                    curve[k].drawdown = last_call.result.max_drawdown
           \/ curve = <<>> /\ last_call.result.max_drawdown = RZero

\* C28 as first stated: max_drawdown_date is the date of the first point that
\* attains max_drawdown, and there is no date for an empty curve.
C28_DateOfFirstDeepestPoint ==
    /\ CurveFollowsSnapshots
    /\ MaxDrawdownIsLargest
    /\ (last_call.op = "compute_metrics" /\ ~last_call.result.raised) =>
        LET curve == CurveOf(last_call.account_id) IN
        IF curve = <<>>
        THEN last_call.result.max_drawdown_date = None
        ELSE \E k \in DOMAIN curve :
                /\ curve[k].drawdown = last_call.result.max_drawdown
                /\ \A j \in 1..(k - 1) :
                        curve[j].drawdown # last_call.result.max_drawdown
                /\ last_call.result.max_drawdown_date = curve[k].date

\* C28: the equity curve has one point per snapshot in chronological order;
\* each point's drawdown is the running peak (the maximum of the initial
\* balance and every total_value up to and including the point) less the
\* point's total_value, so it is at least 0 and is 0 at every new peak;
\* max_drawdown is the largest of the point drawdowns; when it is greater than
\* 0, max_drawdown_date is the date of the first point that attains it; when
\* it is 0, for an empty curve and for a curve that never falls below its
\* running peak, there is no date.
C28_DrawdownOfTheCurve ==
    /\ CurveFollowsSnapshots
    /\ MaxDrawdownIsLargest
    /\ (last_call.op = "compute_metrics" /\ ~last_call.result.raised) =>
        LET curve == CurveOf(last_call.account_id) IN
        IF last_call.result.max_drawdown = RZero
        THEN last_call.result.max_drawdown_date = None
        ELSE \E k \in DOMAIN curve :
                /\ curve[k].drawdown = last_call.result.max_drawdown
                /\ \A j \in 1..(k - 1) :
                        curve[j].drawdown # last_call.result.max_drawdown
                /\ last_call.result.max_drawdown_date = curve[k].date

\* Three snapshots of an account that began with 4: a new peak of 6, then 2
\* twice; the deepest drawdown, 4, is attained on the second and the third
\* date and reported for the second
C28_Witness ==
    /\ (last_call.op = "compute_metrics" /\ ~last_call.result.raised)
    /\ Len(CurveOf(last_call.account_id)) = 3
    /\ CurveOf(last_call.account_id)[1].drawdown = RZero
    /\ CurveOf(last_call.account_id)[2].drawdown = RInt(4)
    /\ CurveOf(last_call.account_id)[3].drawdown = RInt(4)
    /\ last_call.result.max_drawdown = RInt(4)
    /\ last_call.result.max_drawdown_date = 2

====
